---- MODULE Spec2Model ----
(***************************************************************************)
(* The export pipeline of clipforge (src-tauri): the export_video command  *)
(* with its single-clip and multi-clip orchestration (lib.rs), and the     *)
(* streaming executor FfmpegBuilder::run_with_progress with its stderr     *)
(* progress reader task (utils/ffmpeg.rs).                                 *)
(*                                                                         *)
(* Representation.  An f64 number of seconds is an integer number of       *)
(* milliseconds.  A path is a string.  The file system is the set of the   *)
(* paths that exist.  The external ffmpeg process is nondeterministic: it  *)
(* may fail to spawn, writes progress lines with non-decreasing out_time   *)
(* to its stderr pipe, and exits with any status, with or without leaving  *)
(* its output file behind.                                                 *)
(***************************************************************************)
EXTENDS Integers, Sequences, FiniteSets, TLC

\* ------------------------------------------------------------------ bounds
MaxClips == 3       \* longest clip list of a request
MaxLines == 2       \* progress lines the processes of one job write (main model)
StreamMs == 1000    \* length of the synthetic one-line-per-ms stream
MaxCalls == 5       \* builder methods called on one FfmpegBuilder
MaxOrdered == 3     \* builder methods called when every order of them is compared
MaxUnchecked == 2   \* builder methods called with arguments of any kind
MaxThumbnailRuns == 2   \* generate_thumbnail commands, one after the other

\* ------------------------------------------------------- program constants
PROGRESS_THROTTLE_MS == 100

Phases == 0 .. MaxClips   \* of a job with n clips: clip phases 0..n-1, concat phase n

\* ------------------------------------------------------------------- paths
output_path == "out.mp4"
concat_list_path == "concat_list.txt"
TempClipPath(k) == "temp_clip_" \o ToString(k) \o ".mp4"
ScratchPaths == {TempClipPath(k) : k \in Phases} \cup {concat_list_path}
SourceFiles == {"a.mp4", "b.mp4"}

\* ---------------------------------------------------------------- requests
\* ClipExportInfo: times in ms, volume in thousandths, the two Options as
\* <<>> (None) or <<x>> (Some(x))
ClipChoices ==
  { [path |-> "a.mp4", trim_start |-> 0, trim_end |-> 10000,
     volume |-> <<>>, muted |-> <<>>],
    [path |-> "b.mp4", trim_start |-> 1000, trim_end |-> 6000,
     volume |-> <<>>, muted |-> <<>>],
    [path |-> "missing.mp4", trim_start |-> 0, trim_end |-> 5000,
     volume |-> <<>>, muted |-> <<>>] }

ResolutionNames == {"720p", "8K"}

\* the clip lists of the requests: every list of at most MaxClips choices in
\* which "a.mp4" (10 s) comes first only and "b.mp4" (5 s) later only
ClipLists ==
  { s \in UNION {[1 .. n -> ClipChoices] : n \in 0 .. MaxClips} :
      \A k \in 1 .. Len(s) : s[k].path # (IF k = 1 THEN "b.mp4" ELSE "a.mp4") }

Requests == [clips : ClipLists, resolution : ResolutionNames]

SingleClipRequests ==
  { r \in Requests : Len(r.clips) = 1 /\ r.resolution = "720p"
                     /\ r.clips[1].path \in SourceFiles }

NoRequest == [clips |-> <<>>, resolution |-> ""]

\* ----------------------------------------------------------------- results
NoResult == [kind |-> "none", error |-> "", path |-> "", clip |-> -1, cause |-> ""]
Ok(p) == [kind |-> "Ok", error |-> "", path |-> p, clip |-> -1, cause |-> ""]
Err(e, p, k, c) == [kind |-> "Err", error |-> e, path |-> p, clip |-> k, cause |-> c]

\* impl Display for FFmpegError
Display(e) ==
  CASE e = "CommandSpawn" -> "Failed to spawn FFmpeg"
    [] e = "ExecutionFailed" -> "FFmpeg execution failed"
    [] e = "OutputValidation" -> "Output validation failed"
    [] OTHER -> "Invalid path"

\* export_multi_clips: the error of a failed clip phase,
\* "Failed to process clip {i}: {e}"
ClipError_bare(index, e) == Err(Display(e), "", -1, "")
ClipError(index, e) == Err("Failed to process clip", "", index, Display(e))

\* what a failing ffmpeg (exit status code) has written to its stderr
StderrText(code) == IF code = 0 THEN "" ELSE "Conversion failed!"

\* The String inside an FFmpegError, as the sequence of the pieces it is
\* formatted from.  run_with_progress:
\* format!("FFmpeg process exited with code: {:?}", status.code())
RunWithProgressMessage(ret, code) ==
  CASE ret = "ExecutionFailed" ->
         <<"FFmpeg process exited with code: Some(", ToString(code), ")">>
    [] ret = "OutputValidation" -> <<"Output file was not created">>
    [] ret = "CommandSpawn" -> <<"No such file or directory (os error 2)">>
    [] OTHER -> <<>>

\* run and run_sync: String::from_utf8_lossy(&output.stderr)
RunMessage(ret, code) ==
  CASE ret = "ExecutionFailed" -> <<StderrText(code)>>
    [] ret = "OutputValidation" -> <<"Output file was not created">>
    [] ret = "CommandSpawn" -> <<"No such file or directory (os error 2)">>
    [] OTHER -> <<>>

\* ------------------------------------------------------------- arithmetic
\* `x as u32` for the f64 x = num/den (den # 0): truncates toward zero and
\* saturates below at 0.
F64ToU32(num, den) ==
  IF (num >= 0 /\ den > 0) \/ (num <= 0 /\ den < 0)
    THEN (IF num >= 0 THEN num ELSE -num) \div (IF den > 0 THEN den ELSE -den)
    ELSE 0

Min(a, b) == IF a <= b THEN a ELSE b

\* the match on resolution.as_str() of export_video: <<width, height>>, or
\* <<0, 0>> for the error arm
ParseResolution(name) ==
  CASE name = "source" -> <<1280, 720>>
    [] name = "480p" -> <<854, 480>>
    [] name = "720p" -> <<1280, 720>>
    [] name = "1080p" -> <<1920, 1080>>
    [] name = "4K" -> <<3840, 2160>>
    [] OTHER -> <<0, 0>>

ClipDuration(clip) == clip.trim_end - clip.trim_start

RECURSIVE SumDurations(_)
SumDurations(clips) ==
  IF clips = <<>> THEN 0
  ELSE ClipDuration(Head(clips)) + SumDurations(Tail(clips))

\* f64 rounding of x / total * 90.0: the <<x ms, total ms>> pairs of whole
\* seconds, total at most 25 s, whose exact value is an integer but whose
\* IEEE-754 double product lies just below it
\* (7.0 / 10.0 * 90.0 = 62.99999999999999), so that `as u32` gives one less
F64WindowRoundsBelow == {<<7000, 10000>>, <<14000, 20000>>}

\* lib.rs: progress_offset / progress_range of a clip phase
ProgressOffset_of100(completed, total) == F64ToU32(completed * 100, total)
ProgressOffset(completed, total) ==
  IF <<completed, total>> \in F64WindowRoundsBelow
    THEN F64ToU32(completed * 90, total) - 1
    ELSE F64ToU32(completed * 90, total)
ProgressRange(duration, total) ==
  IF <<duration, total>> \in F64WindowRoundsBelow
    THEN F64ToU32(duration * 90, total) - 1
    ELSE F64ToU32(duration * 90, total)

\* lib.rs: concat_duration_estimate = total_clip_duration * 0.1
ConcatDurationEstimate(total) == total \div 10

\* the seconds a progress line reports, as a fraction <<num, den>> of
\* milliseconds: out_time_us is divided by 1_000_000, out_time_ms by 1_000
CurrentTime(line) ==
  IF line.key = "out_time_us" THEN <<line.value, 1000>> ELSE <<line.value, 1>>

\* f64 rounding of current_time / total * 100.0: the <<elapsed ms, total ms>>
\* pairs, among those with a total of 10 s or 5 s, whose exact quotient is an
\* integer percentage but whose IEEE-754 double product lies just below it
\* (2.9 / 10.0 * 100.0 = 28.999999999999996), so that `as u32` gives one less
F64PhaseRoundsBelow ==
  {<<700, 10000>>, <<1400, 10000>>, <<2800, 10000>>, <<2900, 10000>>,
   <<3300, 10000>>, <<5600, 10000>>, <<5800, 10000>>, <<6600, 10000>>,
   <<8700, 10000>>, <<9100, 10000>>,
   <<350, 5000>>, <<700, 5000>>, <<1400, 5000>>, <<1450, 5000>>,
   <<1650, 5000>>, <<2800, 5000>>, <<2900, 5000>>, <<3300, 5000>>,
   <<4350, 5000>>, <<4550, 5000>>}

\* ((current_time / total * 100.0).min(100.0)) as u32, for total > 0
PhaseProgress(current_time, total) ==
  LET exact == Min(100, F64ToU32(current_time[1] * 100, current_time[2] * total))
      ms == current_time[1] \div current_time[2]
  IN IF current_time[1] % current_time[2] = 0 /\ <<ms, total>> \in F64PhaseRoundsBelow
       THEN exact - 1 ELSE exact

\* f64 rounding of offset + phase / 100.0 * range: all the triples
\* <<offset, phase, range>> of percentages 0..100 whose IEEE-754 double value
\* lies just below the integer the exact sum equals
\* (0.0 + 29.0 / 100.0 * 100.0 = 28.999999999999996)
F64OverallRoundsBelow ==
  {<<o, 29, 100>> : o \in 0 .. 3} \cup {<<o, 57, 100>> : o \in 0 .. 7} \cup
  {<<o, 58, 100>> : o \in 0 .. 6} \cup {<<o, 58, 50>> : o \in 0 .. 3} \cup
  {<<o, 70, 90>> : o \in 0 .. 1}

\* the same expression in exact arithmetic
OverallProgress_exact(offset, phase, range) ==
  Min(100, offset + F64ToU32(phase * range, 100))

\* (offset + phase / 100 * range).min(100.0) as u32
OverallProgress(offset, phase, range) ==
  IF <<offset, phase, range>> \in F64OverallRoundsBelow
    THEN OverallProgress_exact(offset, phase, range) - 1
    ELSE OverallProgress_exact(offset, phase, range)

\* the throttle test of the reader task
ThrottleElapsed_sinceStart(t, last_progress_time) == t >= PROGRESS_THROTTLE_MS
ThrottleElapsed(t, last_progress_time) ==
  t - last_progress_time >= PROGRESS_THROTTLE_MS

\* the tail of run_with_progress: exit status and output check
RunWithProgressResult_statusOnly(code, output_exists) ==
  IF code = 0 THEN "Ok" ELSE "ExecutionFailed"
RunWithProgressResult(code, output_exists) ==
  IF code = 0
    THEN (IF output_exists THEN "Ok" ELSE "OutputValidation")
    ELSE "ExecutionFailed"

\* the tail of run: exit status and output check
RunResult(code, output_exists) ==
  IF code = 0
    THEN (IF output_exists THEN "Ok" ELSE "OutputValidation")
    ELSE "ExecutionFailed"

\* ------------------------------------------------------------ FfmpegBuilder
\* Option<T>: None and Some(x)
None == <<>>
Some(x) == <<x>>
IsSome(o) == o # None
Unwrap(o) == o[1]

\* FfmpegBuilder::new(): every Option None, every bool false.  Times are in
\* ms, the volume in thousandths.
FfmpegBuilder ==
  [input |-> None, output |-> None, trim_start |-> None, trim_duration |-> None,
   scale_width |-> None, scale_height |-> None, crop_width |-> None,
   crop_height |-> None, crop_x |-> None, crop_y |-> None, video_codec |-> None,
   audio_codec |-> None, preset |-> None, crf |-> None, audio_bitrate |-> None,
   progress_enabled |-> FALSE, thumbnail_time |-> None, stream_copy |-> FALSE,
   raw_input |-> None, concat_list |-> None, pixel_format |-> None,
   scale_pad |-> FALSE, volume |-> None, muted |-> FALSE]

RawInputConfig(format, video_size, framerate) ==
  [pixel_format |-> format, video_size |-> video_size, framerate |-> framerate]

\* the builder methods, each returning the changed builder
input(b, path) == [b EXCEPT !.input = Some(path)]
output(b, path) == [b EXCEPT !.output = Some(path)]
builder_trim(b, start, duration) ==
  [b EXCEPT !.trim_start = Some(start), !.trim_duration = Some(duration)]
scale(b, width, height) == [b EXCEPT !.scale_width = Some(width), !.scale_height = height]
scale_with_pad(b, width, height) ==
  [b EXCEPT !.scale_width = Some(width), !.scale_height = Some(height),
            !.scale_pad = TRUE]
scale_crop(b, width, height) ==
  [b EXCEPT !.scale_width = Some(width), !.scale_height = Some(height),
            !.scale_pad = FALSE,
            !.crop_width = Some(width), !.crop_height = Some(height),
            !.crop_x = None, !.crop_y = None]
scale_even(b) == [b EXCEPT !.scale_width = Some(0), !.scale_height = None]
crop(b, width, height, x, y) ==
  [b EXCEPT !.crop_width = Some(width), !.crop_height = Some(height),
            !.crop_x = x, !.crop_y = y]
encode(b) ==
  [b EXCEPT !.video_codec = Some("libx264"), !.audio_codec = Some("aac"),
            !.preset = Some("medium"), !.crf = Some(23),
            !.audio_bitrate = Some("128k")]
preset(b, name) == [b EXCEPT !.preset = Some(name)]
stream_copy(b) == [b EXCEPT !.stream_copy = TRUE]
thumbnail(b, time) == [b EXCEPT !.thumbnail_time = Some(time)]
raw_input(b, config) == [b EXCEPT !.raw_input = Some(config)]
concat(b, list_path) == [b EXCEPT !.concat_list = Some(list_path)]
with_progress(b) == [b EXCEPT !.progress_enabled = TRUE]
pixel_format(b, format) == [b EXCEPT !.pixel_format = Some(format)]
\* the volume stored as given
volume_unclamped(b, vol) == [b EXCEPT !.volume = Some(vol)]
\* vol.max(0.0).min(1.0)
volume(b, vol) ==
  [b EXCEPT !.volume = Some(IF vol < 0 THEN 0 ELSE IF vol > 1000 THEN 1000 ELSE vol)]
mute(b) == [b EXCEPT !.muted = TRUE]

\* a formatting with three decimals always
F64ToString_fixed3(x) ==
  ToString(x \div 1000) \o "." \o ToString((x % 1000) \div 100)
    \o ToString((x % 100) \div 10) \o ToString(x % 10)

\* f64::to_string of x thousandths: the shortest decimal, no trailing zeros
\* and no decimal point for a whole number ("1", "2.5", "0.05")
F64ToString(x) ==
  LET a == IF x < 0 THEN -x ELSE x
      whole == ToString(a \div 1000)
      f == a % 1000
      frac == IF f = 0 THEN ""
              ELSE IF f % 100 = 0 THEN "." \o ToString(f \div 100)
              ELSE IF f % 10 = 0
                THEN "." \o (IF f < 100 THEN "0" ELSE "") \o ToString(f \div 10)
              ELSE "." \o (IF f < 10 THEN "00" ELSE IF f < 100 THEN "0" ELSE "")
                       \o ToString(f)
  IN (IF x < 0 THEN "-" ELSE "") \o whole \o frac

\* filters.join(",")
RECURSIVE Join(_, _)
Join(strings, sep) ==
  IF strings = <<>> THEN ""
  ELSE IF Len(strings) = 1 THEN strings[1]
  ELSE strings[1] \o sep \o Join(Tail(strings), sep)

\* build_args: whether the configuration is the scale+crop (zoom to fill) one
IsScaleCrop(b) ==
  /\ IsSome(b.scale_width)
  /\ IsSome(b.scale_height)
  /\ b.crop_width = b.scale_width
  /\ b.crop_height = b.scale_height
  /\ b.crop_x = None
  /\ b.crop_y = None
  /\ ~b.scale_pad

\* the video filters with the plain scale clause in every mode
VideoFilters_plainScale(b) ==
  (IF /\ IsSome(b.crop_width)
      /\ (b.scale_width # b.crop_width \/ b.scale_height # b.crop_height)
     THEN LET cw == ToString(Unwrap(b.crop_width))
              ch == ToString(Unwrap(b.crop_height))
          IN IF IsSome(b.crop_x) /\ IsSome(b.crop_y)
               THEN <<"crop=" \o cw \o ":" \o ch \o ":" \o ToString(Unwrap(b.crop_x))
                        \o ":" \o ToString(Unwrap(b.crop_y))>>
               ELSE <<"crop=" \o cw \o ":" \o ch \o ":(iw-" \o cw \o ")/2:(ih-"
                        \o ch \o ")/2">>
     ELSE <<>>)
  \o
  (IF IsSome(b.scale_width)
     THEN IF IsSome(b.scale_height)
            THEN <<"scale=" \o ToString(Unwrap(b.scale_width)) \o ":"
                     \o ToString(Unwrap(b.scale_height))>>
            ELSE <<"scale=" \o ToString(Unwrap(b.scale_width)) \o ":trunc(ih/2)*2">>
     ELSE <<>>)

\* build_args: the video filters
VideoFilters(b) ==
  IF IsScaleCrop(b)
    THEN LET w == ToString(Unwrap(b.scale_width))
             h == ToString(Unwrap(b.scale_height))
         IN <<"scale=" \o w \o ":" \o h \o ":force_original_aspect_ratio=increase,crop="
                \o w \o ":" \o h \o ":(iw-" \o w \o ")/2:(ih-" \o h \o ")/2">>
    ELSE
      (IF /\ IsSome(b.crop_width)
          /\ IsSome(b.crop_height)
          /\ (b.scale_width # b.crop_width \/ b.scale_height # b.crop_height)
         THEN LET cw == ToString(Unwrap(b.crop_width))
                  ch == ToString(Unwrap(b.crop_height))
              IN IF IsSome(b.crop_x) /\ IsSome(b.crop_y)
                   THEN <<"crop=" \o cw \o ":" \o ch \o ":" \o ToString(Unwrap(b.crop_x))
                            \o ":" \o ToString(Unwrap(b.crop_y))>>
                   ELSE <<"crop=" \o cw \o ":" \o ch \o ":(iw-" \o cw \o ")/2:(ih-"
                            \o ch \o ")/2">>
         ELSE <<>>)
      \o
      (IF IsSome(b.scale_width)
         THEN LET w == ToString(Unwrap(b.scale_width)) IN
              IF Unwrap(b.scale_width) = 0
                THEN <<"scale=trunc(iw/2)*2:trunc(ih/2)*2">>
              ELSE IF b.scale_pad
                THEN (IF IsSome(b.scale_height)
                        THEN LET h == ToString(Unwrap(b.scale_height)) IN
                             <<"scale=" \o w \o ":" \o h
                                 \o ":force_original_aspect_ratio=decrease,pad=" \o w
                                 \o ":" \o h \o ":(ow-iw)/2:(oh-ih)/2:black">>
                        ELSE <<"scale=" \o w \o ":trunc(ih/2)*2">>)
              ELSE (IF IsSome(b.scale_height)
                      THEN <<"scale=" \o w \o ":" \o ToString(Unwrap(b.scale_height))>>
                      ELSE <<"scale=" \o w \o ":trunc(ih/2)*2">>)
         ELSE <<>>)

\* build_args: the audio filters (volume and mute)
AudioFilters(b) ==
  IF b.muted THEN <<"volume=0">>
  ELSE IF IsSome(b.volume) THEN <<"volume=" \o F64ToString(Unwrap(b.volume))>>
  ELSE <<>>

\* build_args: the seek parameters
SeekArgs_trimFirst(b) ==
  (IF IsSome(b.trim_start)
     THEN <<"-ss", F64ToString(Unwrap(b.trim_start))>>
   ELSE IF IsSome(b.thumbnail_time)
     THEN <<"-ss", F64ToString(Unwrap(b.thumbnail_time))>>
   ELSE <<>>)
  \o (IF IsSome(b.trim_duration)
        THEN <<"-t", F64ToString(Unwrap(b.trim_duration))>> ELSE <<>>)
SeekArgs(b) ==
  (IF IsSome(b.thumbnail_time)
     THEN <<"-ss", F64ToString(Unwrap(b.thumbnail_time))>>
   ELSE IF IsSome(b.trim_start)
     THEN <<"-ss", F64ToString(Unwrap(b.trim_start))>>
   ELSE <<>>)
  \o (IF IsSome(b.trim_duration)
        THEN <<"-t", F64ToString(Unwrap(b.trim_duration))>> ELSE <<>>)

\* build_args: the input file or the raw input
InputArgs_rawThenPlain(b) ==
  (IF IsSome(b.raw_input)
     THEN <<"-f", "rawvideo",
            "-pixel_format", Unwrap(b.raw_input).pixel_format,
            "-video_size", Unwrap(b.raw_input).video_size,
            "-framerate", ToString(Unwrap(b.raw_input).framerate),
            "-i", "pipe:0">>
     ELSE <<>>)
  \o (IF IsSome(b.input) THEN <<"-i", Unwrap(b.input)>> ELSE <<>>)
InputArgs(b) ==
  IF IsSome(b.raw_input)
    THEN <<"-f", "rawvideo",
           "-pixel_format", Unwrap(b.raw_input).pixel_format,
           "-video_size", Unwrap(b.raw_input).video_size,
           "-framerate", ToString(Unwrap(b.raw_input).framerate),
           "-i", IF IsSome(b.input) THEN Unwrap(b.input) ELSE "pipe:0">>
  ELSE IF IsSome(b.input) THEN <<"-i", Unwrap(b.input)>>
  ELSE <<>>

\* build_args: seek, input and video filter arguments of a non-concat command
SourceArgs(b) ==
  SeekArgs(b)
  \o InputArgs(b)
  \o (IF VideoFilters(b) # <<>>
        THEN <<"-vf", Join(VideoFilters(b), ",")>> ELSE <<>>)

\* build_args: the encoding parameters
EncodeArgs_pixFmtDefault(b) ==
  (IF IsSome(b.video_codec) THEN <<"-c:v", Unwrap(b.video_codec)>> ELSE <<>>)
  \o (IF IsSome(b.preset) THEN <<"-preset", Unwrap(b.preset)>> ELSE <<>>)
  \o (IF IsSome(b.crf) THEN <<"-crf", ToString(Unwrap(b.crf))>> ELSE <<>>)
  \o (IF IsSome(b.pixel_format) THEN <<"-pix_fmt", Unwrap(b.pixel_format)>>
      ELSE IF IsSome(b.video_codec) THEN <<"-pix_fmt", "yuv420p">> ELSE <<>>)
  \o (IF IsSome(b.audio_codec) THEN <<"-c:a", Unwrap(b.audio_codec)>> ELSE <<>>)
  \o (IF IsSome(b.audio_bitrate) THEN <<"-b:a", Unwrap(b.audio_bitrate)>> ELSE <<>>)
EncodeArgs(b) ==
  (IF IsSome(b.video_codec) THEN <<"-c:v", Unwrap(b.video_codec)>> ELSE <<>>)
  \o (IF IsSome(b.preset) THEN <<"-preset", Unwrap(b.preset)>> ELSE <<>>)
  \o (IF IsSome(b.crf) THEN <<"-crf", ToString(Unwrap(b.crf))>> ELSE <<>>)
  \o (IF IsSome(b.pixel_format) THEN <<"-pix_fmt", Unwrap(b.pixel_format)>> ELSE <<>>)
  \o (IF IsSome(b.audio_codec) THEN <<"-c:a", Unwrap(b.audio_codec)>> ELSE <<>>)
  \o (IF IsSome(b.audio_bitrate) THEN <<"-b:a", Unwrap(b.audio_bitrate)>> ELSE <<>>)

CodecArgs_encodeWins(b) ==
  IF b.stream_copy /\ b.video_codec = None
    THEN <<"-c", "copy", "-avoid_negative_ts", "make_zero">>
    ELSE EncodeArgs(b)
CodecArgs_plainCopy(b) ==
  IF b.stream_copy
    THEN <<"-c", "copy", "-avoid_negative_ts", "make_zero">>
    ELSE EncodeArgs(b)
CodecArgs(b) ==
  IF b.stream_copy
    THEN (IF AudioFilters(b) # <<>>
            THEN <<"-c:v", "copy", "-c:a", "aac", "-avoid_negative_ts", "make_zero">>
            ELSE <<"-c", "copy", "-avoid_negative_ts", "make_zero">>)
    ELSE EncodeArgs(b)

\* build_args: the concat demuxer block, or else the seek, input and video
\* filter arguments
FrontArgs_concatThenSource(b) ==
  IF IsSome(b.concat_list)
    THEN <<"-f", "concat", "-safe", "0", "-i", Unwrap(b.concat_list)>> \o SourceArgs(b)
    ELSE SourceArgs(b)
FrontArgs(b) ==
  IF IsSome(b.concat_list)
    THEN <<"-f", "concat", "-safe", "0", "-i", Unwrap(b.concat_list)>>
    ELSE SourceArgs(b)

\* FfmpegBuilder::build_args
build_args(b) ==
  FrontArgs(b)
  \o (IF AudioFilters(b) # <<>> THEN <<"-af", Join(AudioFilters(b), ",")>> ELSE <<>>)
  \o CodecArgs(b)
  \o (IF IsSome(b.thumbnail_time) THEN <<"-vframes", "1">> ELSE <<>>)
  \o (IF b.progress_enabled THEN <<"-progress", "pipe:2">> ELSE <<>>)
  \o (IF IsSome(b.output) THEN <<"-y", Unwrap(b.output)>> ELSE <<>>)

\* export_single_clip / export_multi_clips: the command of one clip
ClipBuilder_volumeAlways(clip, width, height, out) ==
  LET b == with_progress(encode(scale_with_pad(
             builder_trim(input(FfmpegBuilder, clip.path),
                          clip.trim_start, clip.trim_end - clip.trim_start),
             width, height)))
      audio == IF IsSome(clip.volume) THEN volume(b, Unwrap(clip.volume))
               ELSE IF clip.muted = Some(TRUE) THEN mute(b)
               ELSE b
  IN output(audio, out)
ClipBuilder_toScratch(clip, width, height, out) ==
  output(with_progress(encode(scale_with_pad(
           builder_trim(input(FfmpegBuilder, clip.path),
                        clip.trim_start, clip.trim_end - clip.trim_start),
           width, height))), "temp_clip_0.mp4")
ClipBuilder(clip, width, height, out) ==
  LET b == with_progress(encode(scale_with_pad(
             builder_trim(input(FfmpegBuilder, clip.path),
                          clip.trim_start, clip.trim_end - clip.trim_start),
             width, height)))
      audio == IF clip.muted = Some(TRUE) THEN mute(b)
               ELSE IF IsSome(clip.volume) THEN volume(b, Unwrap(clip.volume))
               ELSE b
  IN output(audio, out)

\* export_multi_clips: the concat command
ConcatBuilder(list_path, out) ==
  output(with_progress(stream_copy(concat(FfmpegBuilder, list_path))), out)

\* export_video: the validation before any work is started.  NoResult when
\* the request is accepted.
Validate_firstClipOnly(clips, resolution, fs) ==
  IF clips = <<>>
    THEN Err("No clips provided for export", "", -1, "")
  ELSE IF clips[1].path \notin fs
    THEN Err("Clip not found", clips[1].path, -1, "")
  ELSE IF ParseResolution(resolution) = <<0, 0>>
    THEN Err("Unsupported resolution", resolution, -1, "")
  ELSE NoResult
Validate(clips, resolution, fs) ==
  IF clips = <<>>
    THEN Err("No clips provided for export", "", -1, "")
  ELSE IF \E k \in 1 .. Len(clips) : clips[k].path \notin fs
    THEN LET first == CHOOSE k \in 1 .. Len(clips) :
                        /\ clips[k].path \notin fs
                        /\ \A m \in 1 .. (k - 1) : clips[m].path \in fs
         IN Err("Clip not found", clips[first].path, -1, "")
  ELSE IF ParseResolution(resolution) = <<0, 0>>
    THEN Err("Unsupported resolution", resolution, -1, "")
  ELSE NoResult

\* export_multi_clips: the files removed by the clean-up after the concat run
CleanedUp(fs, trimmed) == fs \ ({trimmed[k] : k \in 1 .. Len(trimmed)} \cup {concat_list_path})

\* export_multi_clips: the lines written to the concat list
ConcatListLines_reversed(trimmed) ==
  [k \in 1 .. Len(trimmed) |-> "file '" \o trimmed[Len(trimmed) + 1 - k] \o "'"]
ConcatListLines(trimmed) == [k \in 1 .. Len(trimmed) |-> "file '" \o trimmed[k] \o "'"]

\* export_multi_clips: where the loop goes after a clip phase returned Ok
AfterClipOk(next_i, n) == IF next_i < n THEN "clip_spawn" ELSE "concat_list"

\* export_multi_clips / export_single_clip: where the job goes after a phase
\* returned an error (the error is returned to the caller)
AfterPhaseErr_retry == "clip_spawn"
AfterPhaseErr == "done"

\* ------------------------------------------------------------------- state
VARIABLES
  files,                    \* the paths that exist on disk
  concat_list_txt,          \* the lines of concat_list.txt
  pc,                       \* per job: where the export_video future stands
  req,                      \* per job: the request being served
  i,                        \* per job: loop index of export_multi_clips
  completed_clip_duration,  \* per job
  trimmed_clip_paths,       \* per job
  result,                   \* per job: what export_video returned
  proc,                     \* per job and phase: the ffmpeg child process
  lines_written,            \* per job: progress lines its children wrote so far
  stderr,                   \* per job and phase: the child's stderr pipe
  reader,                   \* per job and phase: the stderr reader task
  now,                      \* the monotonic clock, in ms
  emitted,                  \* the 'ffmpeg-progress' events: count and last one
  trim,                     \* the trim_clip command
  thumb,                    \* the generate_thumbnail command
  builder,                  \* an FfmpegBuilder being configured
  calls,                    \* the builder methods called on it so far
  args,                     \* what build_args returned for it, if called
  called                    \* the methods called on it, in order (when recorded)

vars == <<files, concat_list_txt, pc, req, i, completed_clip_duration,
          trimmed_clip_paths, result, proc, lines_written, stderr, reader,
          now, emitted, trim, thumb, builder, calls, args, called>>

builderVars == <<builder, calls, args, called>>

jobVars == <<pc, req, i, completed_clip_duration, trimmed_clip_paths, result>>

NoProc == [status |-> "none", code |-> -1, output |-> "", args |-> <<>>, duration |-> None,
           progress_offset |-> 0, progress_range |-> 0,
           out_time |-> 0, spawned |-> 0, ret |-> "pending", msg |-> <<>>]
NoPipe == [buf |-> <<>>, closed |-> FALSE]
NoReader == [status |-> "none", last_progress_time |-> 0]
NoArgs == [n |-> 0, list |-> <<>>]
NoThumb == [pc |-> "idle", file_path |-> "", duration |-> 0, k |-> 0, attempts |-> <<>>,
            last_error |-> <<>>, result |-> [kind |-> "none"], runs |-> 0]

\* the state when the application has started and `jobs` export_video
\* invocations are about to arrive
InitJobs(jobs) ==
  /\ files = SourceFiles
  /\ concat_list_txt = <<>>
  /\ pc = [j \in jobs |-> "idle"]
  /\ req = [j \in jobs |-> NoRequest]
  /\ i = [j \in jobs |-> 0]
  /\ completed_clip_duration = [j \in jobs |-> 0]
  /\ trimmed_clip_paths = [j \in jobs |-> <<>>]
  /\ result = [j \in jobs |-> NoResult]
  /\ proc = [jp \in jobs \X Phases |-> NoProc]
  /\ lines_written = [j \in jobs |-> 0]
  /\ stderr = [jp \in jobs \X Phases |-> NoPipe]
  /\ reader = [jp \in jobs \X Phases |-> NoReader]
  /\ now = 0
  /\ emitted = [n |-> 0, value |-> -1, job |-> 0, phase |-> -1]
  /\ trim = [pc |-> "idle", result |-> NoResult, spawned |-> 0, code |-> -1, msg |-> <<>>]
  /\ thumb = NoThumb
  /\ builder = FfmpegBuilder
  /\ calls = 0
  /\ args = NoArgs
  /\ called = <<>>

Jobs == DOMAIN pc

Init == InitJobs({1})

\* app_handle.emit("ffmpeg-progress", value)
Emit(value, j, p) ==
  emitted' = [n |-> emitted.n + 1, value |-> value, job |-> j, phase |-> p]

\* ------------------------------------------------------- run_with_progress
\* phase_progress of the reader task: `if let Some(total) = duration` the
\* percentage of the total, else 0
PhaseProgressFor_fullWhenUnknown(current_time, duration) ==
  IF IsSome(duration) THEN PhaseProgress(current_time, Unwrap(duration)) ELSE 100
PhaseProgressFor(current_time, duration) ==
  IF IsSome(duration) THEN PhaseProgress(current_time, Unwrap(duration)) ELSE 0

\* command.spawn() succeeded: the child runs, its stderr is piped and the
\* reader task is handed to tokio::spawn, where it starts at once
\* (last_progress_time = Instant::now())
SpawnOk(j, p, b, duration, offset, range) ==
  /\ proc' = [proc EXCEPT ![j, p] =
       [status |-> "running", code |-> -1, output |-> Unwrap(b.output),
        args |-> build_args(b), duration |-> duration, progress_offset |-> offset,
        progress_range |-> range, out_time |-> 0,
        spawned |-> @.spawned + 1, ret |-> "pending", msg |-> <<>>]]
  /\ stderr' = [stderr EXCEPT ![j, p] = NoPipe]
  /\ reader' = [reader EXCEPT ![j, p] = [status |-> "reading", last_progress_time |-> now]]

\* command.spawn() failed: run_with_progress returns CommandSpawn
SpawnFailed(j, p) ==
  /\ proc' = [proc EXCEPT ![j, p].spawned = @ + 1, ![j, p].ret = "CommandSpawn",
                           ![j, p].msg = RunWithProgressMessage("CommandSpawn", -1)]
  /\ UNCHANGED <<stderr, reader>>

\* child.wait().await has completed: the child has exited
ChildExited_notAwaited(j, p) == proc[j, p].status # "none"
ChildExited(j, p) == proc[j, p].status = "exited"

\* what run_with_progress returns once child.wait() has returned
WaitResult_readerDecides(j, p) ==
  IF reader[j, p].status = "done"
    THEN RunWithProgressResult(proc[j, p].code, proc[j, p].output \in files)
    ELSE "ExecutionFailed"
WaitResult(j, p) ==
  RunWithProgressResult(proc[j, p].code, proc[j, p].output \in files)

\* ------------------------------------------------------------ export_video
\* The command up to its first await: validation, then either the single
\* clip path or the start of export_multi_clips (app data directory, the
\* initial progress event).  dir_ok: whether app_data_dir() succeeded.
export_video(j, requests) ==
  /\ pc[j] = "idle"
  /\ trim.pc = "idle"
  /\ \E r \in requests, dir_ok \in BOOLEAN :
       LET v == Validate(r.clips, r.resolution, files) IN
       /\ req' = [req EXCEPT ![j] = r]
       /\ IF v # NoResult
            THEN /\ pc' = [pc EXCEPT ![j] = "done"]
                 /\ result' = [result EXCEPT ![j] = v]
                 /\ UNCHANGED emitted
          ELSE IF Len(r.clips) = 1
            THEN /\ pc' = [pc EXCEPT ![j] = "single_spawn"]
                 /\ UNCHANGED <<result, emitted>>
          ELSE IF ~dir_ok
            THEN /\ pc' = [pc EXCEPT ![j] = "done"]
                 /\ result' = [result EXCEPT ![j] =
                      Err("Failed to get app data directory", "", -1, "")]
                 /\ UNCHANGED emitted
          ELSE /\ pc' = [pc EXCEPT ![j] = "clip_spawn"]
               /\ Emit(0, j, -1)
               /\ UNCHANGED result
  /\ i' = [i EXCEPT ![j] = 0]
  /\ completed_clip_duration' = [completed_clip_duration EXCEPT ![j] = 0]
  /\ trimmed_clip_paths' = [trimmed_clip_paths EXCEPT ![j] = <<>>]
  /\ UNCHANGED <<lines_written, files, concat_list_txt, proc, stderr, reader, now, trim, thumb>>

\* export_single_clip up to the await of child.wait(): one command over the
\* window 0..100, written to the final output path
export_single_clip(j) ==
  /\ pc[j] = "single_spawn"
  /\ \E spawn_ok \in BOOLEAN :
       IF spawn_ok
         THEN /\ SpawnOk(j, 0,
                         ClipBuilder(req[j].clips[1], ParseResolution(req[j].resolution)[1],
                                     ParseResolution(req[j].resolution)[2], output_path),
                         Some(ClipDuration(req[j].clips[1])), 0, 100)
              /\ pc' = [pc EXCEPT ![j] = "single_wait"]
              /\ UNCHANGED result
         ELSE /\ SpawnFailed(j, 0)
              /\ pc' = [pc EXCEPT ![j] = AfterPhaseErr]
              /\ result' = [result EXCEPT ![j] =
                   Err(Display("CommandSpawn"), "", -1, "")]
  /\ UNCHANGED <<lines_written, files, concat_list_txt, req, i, completed_clip_duration,
                 trimmed_clip_paths, now, emitted, trim, thumb>>

\* export_single_clip after child.wait() returned
export_single_clip_wait(j) ==
  /\ pc[j] = "single_wait"
  /\ ChildExited(j, 0)
  /\ LET ret == WaitResult(j, 0) IN
       /\ proc' = [proc EXCEPT ![j, 0].ret = ret,
                                ![j, 0].msg = RunWithProgressMessage(ret, proc[j, 0].code)]
       /\ IF ret = "Ok"
            THEN /\ pc' = [pc EXCEPT ![j] = "done"]
                 /\ result' = [result EXCEPT ![j] = Ok(output_path)]
            ELSE /\ pc' = [pc EXCEPT ![j] = AfterPhaseErr]
                 /\ result' = [result EXCEPT ![j] = Err(Display(ret), "", -1, "")]
  /\ UNCHANGED <<lines_written, files, concat_list_txt, req, i, completed_clip_duration,
                 trimmed_clip_paths, stderr, reader, now, emitted, trim, thumb>>

\* export_multi_clips: one iteration of the clip loop up to the await
export_multi_clips_spawn(j) ==
  /\ pc[j] = "clip_spawn"
  /\ LET clip == req[j].clips[i[j] + 1]
         duration == ClipDuration(clip)
         total_clip_duration == SumDurations(req[j].clips)
         progress_offset == ProgressOffset(completed_clip_duration[j], total_clip_duration)
         progress_range == ProgressRange(duration, total_clip_duration)
     IN \E spawn_ok \in BOOLEAN :
          IF spawn_ok
            THEN /\ SpawnOk(j, i[j],
                            ClipBuilder(clip, ParseResolution(req[j].resolution)[1],
                                        ParseResolution(req[j].resolution)[2],
                                        TempClipPath(i[j])),
                            Some(duration), progress_offset, progress_range)
                 /\ pc' = [pc EXCEPT ![j] = "clip_wait"]
                 /\ UNCHANGED result
            ELSE /\ SpawnFailed(j, i[j])
                 /\ pc' = [pc EXCEPT ![j] = AfterPhaseErr]
                 /\ result' = [result EXCEPT ![j] =
                      ClipError(i[j], "CommandSpawn")]
  /\ UNCHANGED <<lines_written, files, concat_list_txt, req, i, completed_clip_duration,
                 trimmed_clip_paths, now, emitted, trim, thumb>>

\* export_multi_clips: the rest of the iteration, after child.wait() returned
export_multi_clips_wait(j) ==
  /\ pc[j] = "clip_wait"
  /\ ChildExited(j, i[j])
  /\ LET ret == WaitResult(j, i[j]) IN
       /\ proc' = [proc EXCEPT ![j, i[j]].ret = ret,
                                ![j, i[j]].msg = RunWithProgressMessage(ret, proc[j, i[j]].code)]
       /\ IF ret = "Ok"
            THEN /\ trimmed_clip_paths' = [trimmed_clip_paths EXCEPT ![j] =
                      Append(@, TempClipPath(i[j]))]
                 /\ completed_clip_duration' = [completed_clip_duration EXCEPT ![j] =
                      @ + ClipDuration(req[j].clips[i[j] + 1])]
                 /\ i' = [i EXCEPT ![j] = @ + 1]
                 /\ pc' = [pc EXCEPT ![j] = AfterClipOk(i[j] + 1, Len(req[j].clips))]
                 /\ UNCHANGED result
            ELSE /\ pc' = [pc EXCEPT ![j] = AfterPhaseErr]
                 /\ result' = [result EXCEPT ![j] =
                      ClipError(i[j], ret)]
                 /\ UNCHANGED <<trimmed_clip_paths, completed_clip_duration, i>>
  /\ UNCHANGED <<lines_written, files, concat_list_txt, req, stderr, reader, now, emitted, trim, thumb>>

\* export_multi_clips: create, write and flush concat_list.txt.  io: the
\* outcome of the file operations.
export_multi_clips_list(j) ==
  /\ pc[j] = "concat_list"
  /\ \E io \in {"ok", "create_failed", "write_failed"} :
       /\ files' = IF io = "create_failed" THEN files ELSE files \cup {concat_list_path}
       /\ concat_list_txt' =
            CASE io = "ok" -> ConcatListLines(trimmed_clip_paths[j])
              [] io = "write_failed" -> <<>>
              [] OTHER -> concat_list_txt
       /\ IF io = "ok"
            THEN /\ pc' = [pc EXCEPT ![j] = "concat_spawn"]
                 /\ UNCHANGED result
            ELSE /\ pc' = [pc EXCEPT ![j] = "done"]
                 /\ result' = [result EXCEPT ![j] =
                      Err(IF io = "create_failed"
                            THEN "Failed to create concat list file"
                            ELSE "Failed to write to concat list", "", -1, "")]
  /\ UNCHANGED <<lines_written, req, i, completed_clip_duration, trimmed_clip_paths, proc,
                 stderr, reader, now, emitted, trim, thumb>>

\* export_multi_clips: the concat command up to the await; when the spawn
\* fails the clean-up and the return follow at once
export_multi_clips_concat(j) ==
  /\ pc[j] = "concat_spawn"
  /\ LET n == Len(req[j].clips)
         total_clip_duration == SumDurations(req[j].clips)
     IN \E spawn_ok \in BOOLEAN :
          IF spawn_ok
            THEN /\ SpawnOk(j, n, ConcatBuilder(concat_list_path, output_path),
                            Some(ConcatDurationEstimate(total_clip_duration)), 90, 10)
                 /\ pc' = [pc EXCEPT ![j] = "concat_wait"]
                 /\ UNCHANGED <<result, files>>
            ELSE /\ SpawnFailed(j, n)
                 /\ files' = CleanedUp(files, trimmed_clip_paths[j])
                 /\ pc' = [pc EXCEPT ![j] = "done"]
                 /\ result' = [result EXCEPT ![j] =
                      Err(Display("CommandSpawn"), "", -1, "")]
  /\ UNCHANGED <<lines_written, concat_list_txt, req, i, completed_clip_duration,
                 trimmed_clip_paths, now, emitted, trim, thumb>>

\* export_multi_clips: after the concat child.wait() returned: the result,
\* the clean-up of the scratch files, the return
export_multi_clips_finish(j) ==
  /\ pc[j] = "concat_wait"
  /\ LET n == Len(req[j].clips)
         ret == WaitResult(j, n)
     IN /\ ChildExited(j, n)
        /\ proc' = [proc EXCEPT ![j, n].ret = ret,
                                 ![j, n].msg = RunWithProgressMessage(ret, proc[j, n].code)]
        /\ files' = CleanedUp(files, trimmed_clip_paths[j])
        /\ pc' = [pc EXCEPT ![j] = "done"]
        /\ result' = [result EXCEPT ![j] =
             IF ret = "Ok" THEN Ok(output_path) ELSE Err(Display(ret), "", -1, "")]
  /\ UNCHANGED <<lines_written, concat_list_txt, req, i, completed_clip_duration,
                 trimmed_clip_paths, stderr, reader, now, emitted, trim, thumb>>

\* ------------------------------------------------------ the ffmpeg process
ProgressKeys == {"out_time_us", "out_time_ms"}

\* the line `key=value` reporting t milliseconds of output
ProgressLine(key, t) ==
  [key |-> key, value |-> IF key = "out_time_us" THEN t * 1000 ELSE t]

\* the reports a child of the main model chooses from: <<key, out_time in ms>>
Reports == {<<"out_time_us", 2500>>, <<"out_time_ms", 10000>>}

\* the running child writes one more progress line to its stderr
ffmpeg_write(j, p) ==
  /\ proc[j, p].status = "running"
  /\ lines_written[j] < MaxLines
  /\ \E r \in Reports :
       /\ r[2] >= proc[j, p].out_time
       /\ proc' = [proc EXCEPT ![j, p].out_time = r[2]]
       /\ stderr' = [stderr EXCEPT ![j, p].buf = Append(@, ProgressLine(r[1], r[2]))]
  /\ lines_written' = [lines_written EXCEPT ![j] = @ + 1]
  /\ UNCHANGED <<files, concat_list_txt, jobVars, reader, now, emitted, trim, thumb>>

\* the child exits (closing its stderr) with some status, having left its
\* output file on disk or not
ffmpeg_exit(j, p) ==
  /\ proc[j, p].status = "running"
  /\ \E code \in {0, 1}, created \in BOOLEAN :
       /\ proc' = [proc EXCEPT ![j, p].status = "exited", ![j, p].code = code,
                                ![j, p].out_time = 0]
       /\ files' = IF created THEN files \cup {proc[j, p].output} ELSE files
  /\ stderr' = [stderr EXCEPT ![j, p].closed = TRUE]
  /\ UNCHANGED <<lines_written, concat_list_txt, jobVars, reader, now, emitted, trim, thumb>>

\* ---------------------------------------------------- the stderr reader task
\* one turn of `while let Ok(Some(line)) = lines.next_line().await`
reader_line(j, p) ==
  /\ reader[j, p].status = "reading"
  /\ stderr[j, p].buf # <<>>
  /\ LET line == Head(stderr[j, p].buf)
         phase_progress == PhaseProgressFor(CurrentTime(line), proc[j, p].duration)
         overall_progress == OverallProgress(proc[j, p].progress_offset,
                                             phase_progress,
                                             proc[j, p].progress_range)
     IN /\ stderr' = [stderr EXCEPT ![j, p].buf = Tail(@)]
        /\ IF line.key \in ProgressKeys
              /\ ThrottleElapsed(now, reader[j, p].last_progress_time)
             THEN /\ reader' = [reader EXCEPT ![j, p].last_progress_time = now]
                  /\ Emit(overall_progress, j, p)
             ELSE UNCHANGED <<reader, emitted>>
  /\ UNCHANGED <<lines_written, files, concat_list_txt, jobVars, proc, now, trim, thumb>>

\* lines.next_line() returns Ok(None): the stream ended, the task finishes
reader_eof(j, p) ==
  /\ reader[j, p].status = "reading"
  /\ stderr[j, p].buf = <<>>
  /\ stderr[j, p].closed
  /\ reader' = [reader EXCEPT ![j, p] = [status |-> "done", last_progress_time |-> 0]]
  /\ UNCHANGED <<lines_written, files, concat_list_txt, jobVars, proc, stderr, now, emitted, trim, thumb>>

\* lines.next_line() returns Err (an I/O error, a line that is not UTF-8):
\* `while let Ok(Some(line))` does not match, the task finishes with the
\* rest of the stream unread
reader_error(j, p) ==
  /\ reader[j, p].status = "reading"
  /\ reader' = [reader EXCEPT ![j, p] = [status |-> "done", last_progress_time |-> 0]]
  /\ UNCHANGED <<lines_written, files, concat_list_txt, jobVars, proc, stderr, now, emitted, trim, thumb>>

\* One throttle period passes.  The clock is kept relative: instead of
\* moving `now` forward, the last_progress_time of every running reader task
\* moves PROGRESS_THROTTLE_MS into the past, no further than one period
\* before `now` (beyond which the throttle test cannot tell the difference).
Tick ==
  /\ \E jp \in DOMAIN reader :
       /\ reader[jp].status = "reading"
       /\ reader[jp].last_progress_time > now - PROGRESS_THROTTLE_MS
  /\ reader' = [jp \in DOMAIN reader |->
       IF reader[jp].status = "reading"
         THEN [reader[jp] EXCEPT !.last_progress_time =
                 IF @ - PROGRESS_THROTTLE_MS < now - PROGRESS_THROTTLE_MS
                   THEN now - PROGRESS_THROTTLE_MS
                   ELSE @ - PROGRESS_THROTTLE_MS]
         ELSE reader[jp]]
  /\ UNCHANGED <<lines_written, files, concat_list_txt, jobVars, proc, stderr, now, emitted, trim, thumb>>

\* a synthetic child: one progress line per millisecond for StreamMs ms,
\* each read by the reader task before the next one is written
ffmpeg_stream(j, p) ==
  /\ proc[j, p].status = "running"
  /\ reader[j, p].status = "reading"
  /\ stderr[j, p].buf = <<>>
  /\ now < StreamMs
  /\ now' = now + 1
  /\ \E key \in ProgressKeys :
       /\ proc' = [proc EXCEPT ![j, p].out_time = now + 1]
       /\ stderr' = [stderr EXCEPT ![j, p].buf = Append(@, ProgressLine(key, now + 1))]
  /\ UNCHANGED <<files, concat_list_txt, jobVars, lines_written, reader, emitted, trim, thumb>>

\* --------------------------------------- run_with_progress called directly
\* the windows, totals and reported times of the direct calls
ProgressOffsets == {0, 3, 45, 90}
ProgressRanges == {10, 45, 100}
ProgressTotals == {5000, 10000}
ProgressTimes == {2500, 2900, 2950, 10000}

\* run_with_progress(app_handle, duration, offset, range) up to the spawn of
\* the child and of its reader task
run_with_progress_spawn(j, p, durations, offsets) ==
  /\ pc[j] = "idle"
  /\ proc[j, p].status = "none"
  /\ \E duration \in durations, offset \in offsets, range \in ProgressRanges :
       SpawnOk(j, p, with_progress(output(FfmpegBuilder, output_path)),
               duration, offset, range)
  /\ UNCHANGED <<files, concat_list_txt, jobVars, lines_written, now, emitted, trim, thumb>>

\* the running child reports one more out_time, by either key
ffmpeg_report(j, p) ==
  /\ proc[j, p].status = "running"
  /\ lines_written[j] < MaxLines
  /\ \E key \in ProgressKeys, t \in ProgressTimes :
       /\ t >= proc[j, p].out_time
       /\ proc' = [proc EXCEPT ![j, p].out_time = t]
       /\ stderr' = [stderr EXCEPT ![j, p].buf = Append(@, ProgressLine(key, t))]
  /\ lines_written' = [lines_written EXCEPT ![j] = @ + 1]
  /\ UNCHANGED <<files, concat_list_txt, jobVars, reader, now, emitted, trim, thumb>>

\* --------------------------------------------------------------- trim_clip
trimmed_path == "trimmed.mp4"
TrimInputs == {"a.mp4", "missing.mp4"}
TrimRanges == {<<0, 5000>>, <<5000, 5000>>, <<-1000, 5000>>}

\* the trim_clip command: validation, then FfmpegBuilder::run (blocking)
trim_clip ==
  /\ trim.pc = "idle"
  /\ \A j \in Jobs : pc[j] = "idle"
  /\ \E input_path \in TrimInputs, range \in TrimRanges, spawn_ok \in BOOLEAN,
        code \in {0, 1}, created \in BOOLEAN :
       LET invalid ==
             IF input_path \notin files
               THEN Err("Input file not found", input_path, -1, "")
             ELSE IF range[1] < 0 \/ range[2] < 0
               THEN Err("Start and end times must be non-negative", "", -1, "")
             ELSE IF range[1] >= range[2]
               THEN Err("Start time must be less than end time", "", -1, "")
             ELSE NoResult
           after == IF created THEN files \cup {trimmed_path} ELSE files
           ret == RunResult(code, trimmed_path \in after)
       IN IF invalid # NoResult
            THEN /\ trim' = [pc |-> "done", result |-> invalid, spawned |-> 0, code |-> -1,
                             msg |-> <<>>]
                 /\ UNCHANGED files
          ELSE IF ~spawn_ok
            THEN /\ trim' = [pc |-> "done", spawned |-> 1, code |-> -1,
                             msg |-> RunMessage("CommandSpawn", -1),
                             result |-> Err(Display("CommandSpawn"), "", -1, "")]
                 /\ UNCHANGED files
          ELSE /\ files' = after
               /\ trim' = [pc |-> "done", spawned |-> 1, code |-> code,
                           msg |-> RunMessage(ret, code),
                           result |-> IF ret = "Ok" THEN Ok(trimmed_path)
                                      ELSE Err(Display(ret), "", -1, "")]
  /\ UNCHANGED <<lines_written, concat_list_txt, jobVars, proc, stderr, reader, now, emitted,
                 thumb>>

\* ------------------------------------------------------ generate_thumbnail
ThumbnailInputs == {"a.mp4", "missing.mp4"}
\* the durations the command is called with, in ms
ThumbnailDurations == {-1000, 0, 400, 1000, 5000}

\* thumbnails_dir.join(format!("{}_thumb.jpg", file_stem))
ThumbnailPath(file_path) ==
  CASE file_path = "a.mp4" -> "a_thumb.jpg"
    [] file_path = "b.mp4" -> "b_thumb.jpg"
    [] OTHER -> "missing_thumb.jpg"

\* the positions from the start of the video onwards
time_positions_fromStart(duration) == <<0, 500, duration \div 10, 1000>>
\* [1.0, duration * 0.1, 0.5, 0.0], in ms
time_positions(duration) == <<1000, duration \div 10, 500, 0>>

\* `if time_pos >= duration && duration > 0.0 { continue; }`
BeyondDuration(time_pos, duration) == time_pos >= duration /\ duration > 0

\* the builder chain of one attempt
ThumbnailBuilder(file_path, time_pos, out) ==
  output(scale_crop(thumbnail(input(FfmpegBuilder, file_path), time_pos), 320, 180), out)

\* run_sync: the spawn, then the exit status alone
RunSyncResult(spawn_ok, code) ==
  IF ~spawn_ok THEN "CommandSpawn" ELSE IF code = 0 THEN "Ok" ELSE "ExecutionFailed"

\* generate_thumbnail up to its loop: the input must exist, the thumbnails
\* directory must be there
generate_thumbnail ==
  /\ thumb.pc \in {"idle", "done"}
  /\ thumb.runs < MaxThumbnailRuns
  /\ \E file_path \in ThumbnailInputs, duration \in ThumbnailDurations,
        dir_ok \in BOOLEAN, created_ok \in BOOLEAN :
       LET early ==
             IF file_path \notin files
               THEN [kind |-> "Err", error |-> "File not found", last_error |-> <<>>]
             ELSE IF ~dir_ok
               THEN [kind |-> "Err", error |-> "Failed to get app data directory",
                     last_error |-> <<>>]
             ELSE IF ~created_ok
               THEN [kind |-> "Err", error |-> "Failed to create thumbnails directory",
                     last_error |-> <<>>]
             ELSE [kind |-> "none"]
       IN thumb' = [pc |-> IF early.kind = "none" THEN "loop" ELSE "done",
                    file_path |-> file_path, duration |-> duration, k |-> 1,
                    attempts |-> <<>>, last_error |-> <<>>, result |-> early,
                    runs |-> thumb.runs + 1]
  /\ UNCHANGED <<files, lines_written, concat_list_txt, jobVars, proc, stderr, reader, now,
                 emitted, trim>>

\* one turn of `for &time_pos in &time_positions`, and the return after the
\* last one: the position is skipped, or one process is run to its end
generate_thumbnail_turn ==
  /\ thumb.pc = "loop"
  /\ \E spawn_ok \in BOOLEAN, code \in {0, 1}, created \in BOOLEAN, metadata_ok \in BOOLEAN :
       LET time_pos == time_positions(thumb.duration)[thumb.k]
           thumbnail_path == ThumbnailPath(thumb.file_path)
           skipped == BeyondDuration(time_pos, thumb.duration)
           ret == RunSyncResult(spawn_ok, code)
           after == IF ~skipped /\ spawn_ok /\ created
                      THEN files \cup {thumbnail_path} ELSE files
           exists == thumbnail_path \in after
           attempt == [time_pos |-> time_pos, ret |-> ret, exists |-> exists,
                       args |-> build_args(ThumbnailBuilder(thumb.file_path, time_pos,
                                                            thumbnail_path))]
           last_error ==
             IF skipped THEN thumb.last_error
             ELSE IF ret = "Ok" THEN <<"Thumbnail file was not created">>
             ELSE <<"FFmpeg error at", time_pos, Display(ret)>>
           failed ==
             [kind |-> "Err",
              error |-> "Failed to generate thumbnail after trying multiple time positions",
              last_error |-> last_error]
       IN /\ files' = after
          /\ IF ~skipped /\ ret = "Ok" /\ exists
               THEN thumb' = [thumb EXCEPT
                      !.pc = "done",
                      !.attempts = Append(@, attempt),
                      !.result =
                        IF metadata_ok
                          THEN [kind |-> "Ok", path |-> thumbnail_path]
                          ELSE [kind |-> "Err", error |-> "Failed to get thumbnail metadata",
                                last_error |-> <<>>]]
               ELSE thumb' = [thumb EXCEPT
                      !.pc = IF thumb.k = Len(time_positions(thumb.duration))
                               THEN "done" ELSE "loop",
                      !.k = @ + 1,
                      !.attempts = IF skipped THEN @ ELSE Append(@, attempt),
                      !.last_error = last_error,
                      !.result = IF thumb.k = Len(time_positions(thumb.duration))
                                   THEN failed ELSE @]
  /\ UNCHANGED <<lines_written, concat_list_txt, jobVars, proc, stderr, reader, now, emitted,
                 trim>>

\* ------------------------------------------- configuring an FfmpegBuilder
mainVars == <<files, concat_list_txt, pc, req, i, completed_clip_duration,
              trimmed_clip_paths, result, proc, lines_written, stderr, reader,
              now, emitted, trim, thumb>>

\* the arguments the builder methods are called with
TrimArgs == {<<1000, 5000>>, <<2500, 500>>}
Dimensions == {<<1280, 720>>, <<640, 360>>}
ScaleArgs == {<<1280, Some(720)>>, <<320, None>>}
CropOffsets == {<<None, None>>, <<Some(10), Some(20)>>}
Volumes == {-200, 500, 1500}

\* one more builder method is called: the builder moves on, what was built
\* from the previous one is dropped
Call(b) ==
  /\ calls < MaxCalls
  /\ builder' = b
  /\ calls' = calls + 1
  /\ args' = NoArgs
  /\ UNCHANGED <<called, mainVars>>

call_input == Call(input(builder, "input.mp4"))
call_output == Call(output(builder, "output.mp4"))
call_trim == \E t \in TrimArgs : Call(builder_trim(builder, t[1], t[2]))
call_scale == \E d \in ScaleArgs : Call(scale(builder, d[1], d[2]))
call_scale_with_pad == \E d \in Dimensions : Call(scale_with_pad(builder, d[1], d[2]))
call_scale_crop == \E d \in Dimensions : Call(scale_crop(builder, d[1], d[2]))
call_scale_even == Call(scale_even(builder))
call_crop ==
  \E d \in Dimensions, o \in CropOffsets : Call(crop(builder, d[1], d[2], o[1], o[2]))
call_encode == Call(encode(builder))
call_preset == Call(preset(builder, "fast"))
call_stream_copy == Call(stream_copy(builder))
call_thumbnail == Call(thumbnail(builder, 2500))
call_raw_input == Call(raw_input(builder, RawInputConfig("rgb24", "1280x720", 30)))
call_concat == Call(concat(builder, "concat.txt"))
call_with_progress == Call(with_progress(builder))
call_pixel_format == Call(pixel_format(builder, "yuv420p"))
call_volume == \E vol \in Volumes : Call(volume(builder, vol))
call_mute == Call(mute(builder))

\* build_args(&self) leaves the builder as it is
AfterBuildArgs_thumbnailTaken(b) == [b EXCEPT !.thumbnail_time = None]
AfterBuildArgs(b) == b

\* build_args is called on the builder, at most twice in a row
call_build_args ==
  /\ args.n < 2
  /\ args' = [n |-> args.n + 1, list |-> build_args(builder)]
  /\ builder' = AfterBuildArgs(builder)
  /\ UNCHANGED <<calls, called, mainVars>>

\* the builder methods by name, each with the arguments it is called with
\* when the order of the calls is what varies
Methods ==
  {"input", "output", "trim", "scale", "scale_with_pad", "scale_crop", "scale_even",
   "crop", "encode", "preset", "stream_copy", "thumbnail", "raw_input", "concat",
   "with_progress", "pixel_format", "volume", "mute"}

Apply(b, method) ==
  CASE method = "input" -> input(b, "input.mp4")
    [] method = "output" -> output(b, "output.mp4")
    [] method = "trim" -> builder_trim(b, 1000, 5000)
    [] method = "scale" -> scale(b, 1280, Some(720))
    [] method = "scale_with_pad" -> scale_with_pad(b, 640, 360)
    [] method = "scale_crop" -> scale_crop(b, 640, 360)
    [] method = "scale_even" -> scale_even(b)
    [] method = "crop" -> crop(b, 640, 360, None, None)
    [] method = "encode" -> encode(b)
    [] method = "preset" -> preset(b, "fast")
    [] method = "stream_copy" -> stream_copy(b)
    [] method = "thumbnail" -> thumbnail(b, 2500)
    [] method = "raw_input" -> raw_input(b, RawInputConfig("rgb24", "1280x720", 30))
    [] method = "concat" -> concat(b, "concat.txt")
    [] method = "with_progress" -> with_progress(b)
    [] method = "pixel_format" -> pixel_format(b, "yuv420p")
    [] method = "volume" -> volume(b, 500)
    [] OTHER -> mute(b)

\* FfmpegBuilder::new() followed by the calls of `methods` in that order
RECURSIVE Configure(_)
Configure(methods) ==
  IF methods = <<>> THEN FfmpegBuilder
  ELSE Apply(Configure(SubSeq(methods, 1, Len(methods) - 1)), methods[Len(methods)])

\* one more method, not called before, is called and recorded
call_recorded ==
  /\ calls < MaxOrdered
  /\ \E method \in Methods \ {called[k] : k \in 1 .. Len(called)} :
       /\ builder' = Apply(builder, method)
       /\ called' = Append(called, method)
  /\ calls' = calls + 1
  /\ args' = NoArgs
  /\ UNCHANGED mainVars

\* the arguments of the calls below: times and volumes in thousandths,
\* sizes, offsets and names, sensible or not
UncheckedVolumes == {-200, 250, 500, 1000, 1500}
UncheckedTrims == {<<-1000, -5000>>, <<0, 0>>, <<2500, 500>>}
UncheckedTimes == {-1000, 0}
UncheckedScales == {<<0, Some(0)>>, <<100000, None>>, <<1, Some(100000)>>}
UncheckedDimensions == {<<0, 0>>, <<1, 100000>>}
UncheckedOffsets == {<<None, None>>, <<Some(0), None>>, <<Some(100000), Some(0)>>}
UncheckedNames == {"", "no such thing"}
UncheckedConfigs ==
  {RawInputConfig("", "", 0), RawInputConfig("rgb24", "1280x720", 30)}

\* a builder method is called with the given arguments and returns b; the
\* last call is recorded with its arguments
Recorded(method, arguments, b) ==
  /\ calls < MaxUnchecked
  /\ builder' = b
  /\ called' = <<[method |-> method, arguments |-> arguments]>>
  /\ calls' = calls + 1
  /\ args' = NoArgs
  /\ UNCHANGED mainVars

unchecked_input == \E path \in UncheckedNames : Recorded("input", <<path>>, input(builder, path))
unchecked_output ==
  \E path \in UncheckedNames : Recorded("output", <<path>>, output(builder, path))
unchecked_trim ==
  \E t \in UncheckedTrims : Recorded("trim", t, builder_trim(builder, t[1], t[2]))
unchecked_scale ==
  \E d \in UncheckedScales : Recorded("scale", d, scale(builder, d[1], d[2]))
unchecked_scale_with_pad ==
  \E d \in UncheckedDimensions :
    Recorded("scale_with_pad", d, scale_with_pad(builder, d[1], d[2]))
unchecked_scale_crop ==
  \E d \in UncheckedDimensions : Recorded("scale_crop", d, scale_crop(builder, d[1], d[2]))
unchecked_crop ==
  \E d \in UncheckedDimensions, o \in UncheckedOffsets :
    Recorded("crop", d \o o, crop(builder, d[1], d[2], o[1], o[2]))
unchecked_preset ==
  \E name \in UncheckedNames : Recorded("preset", <<name>>, preset(builder, name))
unchecked_thumbnail ==
  \E time \in UncheckedTimes : Recorded("thumbnail", <<time>>, thumbnail(builder, time))
unchecked_raw_input ==
  \E config \in UncheckedConfigs :
    Recorded("raw_input", <<config>>, raw_input(builder, config))
unchecked_concat ==
  \E path \in UncheckedNames : Recorded("concat", <<path>>, concat(builder, path))
unchecked_pixel_format ==
  \E format \in UncheckedNames :
    Recorded("pixel_format", <<format>>, pixel_format(builder, format))
unchecked_volume ==
  \E vol \in UncheckedVolumes : Recorded("volume", <<vol>>, volume(builder, vol))

\* ---------------------------------------------------------- specifications
Next ==
  \/ \E j \in Jobs : export_video(j, Requests) /\ UNCHANGED builderVars
  \/ \E j \in Jobs : export_single_clip(j) /\ UNCHANGED builderVars
  \/ \E j \in Jobs : export_single_clip_wait(j) /\ UNCHANGED builderVars
  \/ \E j \in Jobs : export_multi_clips_spawn(j) /\ UNCHANGED builderVars
  \/ \E j \in Jobs : export_multi_clips_wait(j) /\ UNCHANGED builderVars
  \/ \E j \in Jobs : export_multi_clips_list(j) /\ UNCHANGED builderVars
  \/ \E j \in Jobs : export_multi_clips_concat(j) /\ UNCHANGED builderVars
  \/ \E j \in Jobs : export_multi_clips_finish(j) /\ UNCHANGED builderVars
  \/ \E j \in Jobs, p \in Phases : ffmpeg_write(j, p) /\ UNCHANGED builderVars
  \/ \E j \in Jobs, p \in Phases : ffmpeg_exit(j, p) /\ UNCHANGED builderVars
  \/ \E j \in Jobs, p \in Phases : reader_line(j, p) /\ UNCHANGED builderVars
  \/ \E j \in Jobs, p \in Phases : reader_eof(j, p) /\ UNCHANGED builderVars
  \/ Tick /\ UNCHANGED builderVars
  \/ trim_clip /\ UNCHANGED builderVars

Spec == Init /\ [][Next]_vars

\* one single-clip export whose child is the synthetic stream
NextThrottle ==
  \/ export_video(1, SingleClipRequests) /\ UNCHANGED builderVars
  \/ export_single_clip(1) /\ UNCHANGED builderVars
  \/ export_single_clip_wait(1) /\ UNCHANGED builderVars
  \/ ffmpeg_stream(1, 0) /\ UNCHANGED builderVars
  \/ ffmpeg_exit(1, 0) /\ UNCHANGED builderVars
  \/ reader_line(1, 0) /\ UNCHANGED builderVars
  \/ reader_eof(1, 0) /\ UNCHANGED builderVars

SpecThrottle == Init /\ [][NextThrottle]_vars

\* run_with_progress called with every window, a child reporting times
NextProgress ==
  \/ run_with_progress_spawn(1, 0, {Some(total) : total \in ProgressTotals}, ProgressOffsets)
       /\ UNCHANGED builderVars
  \/ ffmpeg_report(1, 0) /\ UNCHANGED builderVars
  \/ ffmpeg_exit(1, 0) /\ UNCHANGED builderVars
  \/ reader_line(1, 0) /\ UNCHANGED builderVars
  \/ reader_eof(1, 0) /\ UNCHANGED builderVars
  \/ Tick /\ UNCHANGED builderVars

SpecProgress == Init /\ [][NextProgress]_vars

\* run_with_progress called without a known total (duration = None), with
\* offsets up to and beyond 100
UnknownTotalOffsets == ProgressOffsets \cup {100, 120}
NextUnknownTotal ==
  \/ run_with_progress_spawn(1, 0, {None}, UnknownTotalOffsets) /\ UNCHANGED builderVars
  \/ ffmpeg_report(1, 0) /\ UNCHANGED builderVars
  \/ ffmpeg_exit(1, 0) /\ UNCHANGED builderVars
  \/ reader_line(1, 0) /\ UNCHANGED builderVars
  \/ reader_eof(1, 0) /\ UNCHANGED builderVars
  \/ Tick /\ UNCHANGED builderVars

SpecUnknownTotal == Init /\ [][NextUnknownTotal]_vars

\* one single-clip export, its child writing progress lines, its reader task
\* reading them until the stream ends or a read fails
NextReader ==
  \/ \E j \in Jobs : export_video(j, SingleClipRequests) /\ UNCHANGED builderVars
  \/ \E j \in Jobs : export_single_clip(j) /\ UNCHANGED builderVars
  \/ \E j \in Jobs : export_single_clip_wait(j) /\ UNCHANGED builderVars
  \/ \E j \in Jobs : ffmpeg_write(j, 0) /\ UNCHANGED builderVars
  \/ \E j \in Jobs : ffmpeg_exit(j, 0) /\ UNCHANGED builderVars
  \/ \E j \in Jobs : reader_line(j, 0) /\ UNCHANGED builderVars
  \/ \E j \in Jobs : reader_eof(j, 0) /\ UNCHANGED builderVars
  \/ \E j \in Jobs : reader_error(j, 0) /\ UNCHANGED builderVars
  \/ Tick /\ UNCHANGED builderVars

\* the tokio runtime keeps polling a spawned task that can make progress
ReaderFairness ==
  /\ WF_vars(reader_line(1, 0) /\ UNCHANGED builderVars)
  /\ WF_vars(reader_eof(1, 0) /\ UNCHANGED builderVars)

SpecReader == Init /\ [][NextReader]_vars /\ ReaderFairness

\* one export_video command of any request, its children writing progress
\* lines and its reader tasks reading them, within one throttle period
NextExports ==
  \/ \E j \in Jobs : export_video(j, Requests) /\ UNCHANGED builderVars
  \/ \E j \in Jobs : export_single_clip(j) /\ UNCHANGED builderVars
  \/ \E j \in Jobs : export_single_clip_wait(j) /\ UNCHANGED builderVars
  \/ \E j \in Jobs : export_multi_clips_spawn(j) /\ UNCHANGED builderVars
  \/ \E j \in Jobs : export_multi_clips_wait(j) /\ UNCHANGED builderVars
  \/ \E j \in Jobs : export_multi_clips_list(j) /\ UNCHANGED builderVars
  \/ \E j \in Jobs : export_multi_clips_concat(j) /\ UNCHANGED builderVars
  \/ \E j \in Jobs : export_multi_clips_finish(j) /\ UNCHANGED builderVars
  \/ \E j \in Jobs, p \in Phases : ffmpeg_write(j, p) /\ UNCHANGED builderVars
  \/ \E j \in Jobs, p \in Phases : ffmpeg_exit(j, p) /\ UNCHANGED builderVars
  \/ \E j \in Jobs, p \in Phases : reader_line(j, p) /\ UNCHANGED builderVars
  \/ \E j \in Jobs, p \in Phases : reader_eof(j, p) /\ UNCHANGED builderVars

SpecExports == Init /\ [][NextExports]_vars

\* one export_video command of any request, its children exiting without
\* having written progress lines
NextPhases ==
  \/ \E j \in Jobs : export_video(j, Requests) /\ UNCHANGED builderVars
  \/ \E j \in Jobs : export_single_clip(j) /\ UNCHANGED builderVars
  \/ \E j \in Jobs : export_single_clip_wait(j) /\ UNCHANGED builderVars
  \/ \E j \in Jobs : export_multi_clips_spawn(j) /\ UNCHANGED builderVars
  \/ \E j \in Jobs : export_multi_clips_wait(j) /\ UNCHANGED builderVars
  \/ \E j \in Jobs : export_multi_clips_list(j) /\ UNCHANGED builderVars
  \/ \E j \in Jobs : export_multi_clips_concat(j) /\ UNCHANGED builderVars
  \/ \E j \in Jobs : export_multi_clips_finish(j) /\ UNCHANGED builderVars
  \/ \E j \in Jobs, p \in Phases : ffmpeg_exit(j, p) /\ UNCHANGED builderVars
  \/ \E j \in Jobs, p \in Phases : reader_eof(j, p) /\ UNCHANGED builderVars

SpecPhases == Init /\ [][NextPhases]_vars

\* two export_video commands of two-clip requests in flight at once
TwoClipRequests ==
  {r \in Requests : Len(r.clips) = 2 /\ Validate(r.clips, r.resolution, SourceFiles) = NoResult}

NextTwoJobs ==
  \/ \E j \in Jobs : export_video(j, TwoClipRequests) /\ UNCHANGED builderVars
  \/ \E j \in Jobs : export_multi_clips_spawn(j) /\ UNCHANGED builderVars
  \/ \E j \in Jobs : export_multi_clips_wait(j) /\ UNCHANGED builderVars
  \/ \E j \in Jobs : export_multi_clips_list(j) /\ UNCHANGED builderVars
  \/ \E j \in Jobs : export_multi_clips_concat(j) /\ UNCHANGED builderVars
  \/ \E j \in Jobs : export_multi_clips_finish(j) /\ UNCHANGED builderVars
  \/ \E j \in Jobs, p \in Phases : ffmpeg_exit(j, p) /\ UNCHANGED builderVars
  \/ \E j \in Jobs, p \in Phases : reader_eof(j, p) /\ UNCHANGED builderVars

SpecTwoJobs == InitJobs({1, 2}) /\ [][NextTwoJobs]_vars

\* a builder configured by up to MaxCalls method calls, then built
NextBuilder ==
  \/ call_input
  \/ call_output
  \/ call_trim
  \/ call_scale
  \/ call_scale_with_pad
  \/ call_scale_crop
  \/ call_scale_even
  \/ call_crop
  \/ call_encode
  \/ call_preset
  \/ call_stream_copy
  \/ call_thumbnail
  \/ call_raw_input
  \/ call_concat
  \/ call_with_progress
  \/ call_pixel_format
  \/ call_volume
  \/ call_mute
  \/ call_build_args

SpecBuilder == Init /\ [][NextBuilder]_vars

\* generate_thumbnail commands, one after the other
NextThumbnail ==
  \/ generate_thumbnail /\ UNCHANGED builderVars
  \/ generate_thumbnail_turn /\ UNCHANGED builderVars

SpecThumbnail == Init /\ [][NextThumbnail]_vars

\* a builder whose methods are called with arguments of any kind
NextUnchecked ==
  \/ unchecked_input
  \/ unchecked_output
  \/ unchecked_trim
  \/ unchecked_scale
  \/ unchecked_scale_with_pad
  \/ unchecked_scale_crop
  \/ unchecked_crop
  \/ unchecked_preset
  \/ unchecked_thumbnail
  \/ unchecked_raw_input
  \/ unchecked_concat
  \/ unchecked_pixel_format
  \/ unchecked_volume
  \/ call_build_args

SpecUnchecked == Init /\ [][NextUnchecked]_vars

\* a builder on which only the scale family, crop and concat are called
NextFilters ==
  \/ call_scale
  \/ call_scale_with_pad
  \/ call_scale_crop
  \/ call_scale_even
  \/ call_crop
  \/ call_concat
  \/ call_build_args

SpecFilters == Init /\ [][NextFilters]_vars

\* a builder configured by up to MaxOrdered calls of different methods, the
\* calls recorded, then built
NextOrdered ==
  \/ call_recorded
  \/ call_build_args

SpecOrdered == Init /\ [][NextOrdered]_vars

\* the clips of requests that differ in their audio settings and in their
\* trim range: every combination of muted and volume on a valid range, and
\* the ranges with an empty duration and with a negative start
AudioSettings == {None, Some(TRUE), Some(FALSE)} \X {None, Some(500), Some(1500)}
SettingClipChoices ==
  { [path |-> "a.mp4", trim_start |-> 0, trim_end |-> 10000,
     volume |-> a[2], muted |-> a[1]] : a \in AudioSettings }
  \cup
  { [path |-> "a.mp4", trim_start |-> 5000, trim_end |-> 5000,
     volume |-> <<>>, muted |-> <<>>],
    [path |-> "a.mp4", trim_start |-> -1000, trim_end |-> 5000,
     volume |-> <<>>, muted |-> <<>>] }
SettingRequests ==
  [clips : UNION {[1 .. n -> SettingClipChoices] : n \in 1 .. 2}, resolution : {"720p"}]

\* either export_video serves one such request, its children exiting without
\* progress lines, or a builder is configured and built on its own
NextSettings ==
  \/ \E j \in Jobs : calls = 0 /\ args = NoArgs /\ export_video(j, SettingRequests)
                       /\ UNCHANGED builderVars
  \/ \E j \in Jobs : export_single_clip(j) /\ UNCHANGED builderVars
  \/ \E j \in Jobs : export_single_clip_wait(j) /\ UNCHANGED builderVars
  \/ \E j \in Jobs : export_multi_clips_spawn(j) /\ UNCHANGED builderVars
  \/ \E j \in Jobs : export_multi_clips_wait(j) /\ UNCHANGED builderVars
  \/ \E j \in Jobs : export_multi_clips_list(j) /\ UNCHANGED builderVars
  \/ \E j \in Jobs : export_multi_clips_concat(j) /\ UNCHANGED builderVars
  \/ \E j \in Jobs : export_multi_clips_finish(j) /\ UNCHANGED builderVars
  \/ \E j \in Jobs, p \in Phases : ffmpeg_exit(j, p) /\ UNCHANGED builderVars
  \/ \E j \in Jobs, p \in Phases : reader_eof(j, p) /\ UNCHANGED builderVars
  \/ (\A j \in Jobs : pc[j] = "idle") /\ NextBuilder

SpecSettings == Init /\ [][NextSettings]_vars

\* multi-clip requests of clips lasting 5 s, 2 s and 3 s
WindowClipChoices ==
  { [path |-> "a.mp4", trim_start |-> 0, trim_end |-> e,
     volume |-> <<>>, muted |-> <<>>] : e \in {5000, 2000, 3000} }
WindowRequests ==
  [clips : UNION {[1 .. n -> WindowClipChoices] : n \in 2 .. MaxClips},
   resolution : {"720p"}]

\* one export_multi_clips command of such a request, its children exiting
\* without having written progress lines
NextWindows ==
  \/ \E j \in Jobs : export_video(j, WindowRequests) /\ UNCHANGED builderVars
  \/ \E j \in Jobs : export_multi_clips_spawn(j) /\ UNCHANGED builderVars
  \/ \E j \in Jobs : export_multi_clips_wait(j) /\ UNCHANGED builderVars
  \/ \E j \in Jobs : export_multi_clips_list(j) /\ UNCHANGED builderVars
  \/ \E j \in Jobs : export_multi_clips_concat(j) /\ UNCHANGED builderVars
  \/ \E j \in Jobs : export_multi_clips_finish(j) /\ UNCHANGED builderVars
  \/ \E j \in Jobs, p \in Phases : ffmpeg_exit(j, p) /\ UNCHANGED builderVars
  \/ \E j \in Jobs, p \in Phases : reader_eof(j, p) /\ UNCHANGED builderVars

SpecWindows == Init /\ [][NextWindows]_vars

\* ------------------------------------------------------------------ claims
\* run_with_progress of phase p of job j has returned after waiting for its child
Returned(j, p) == proc[j, p].ret \in {"Ok", "ExecutionFailed", "OutputValidation"}
\* run_with_progress of phase p of job j has returned an error
Failed(j, p) == proc[j, p].ret \in {"CommandSpawn", "ExecutionFailed", "OutputValidation"}
IsMulti(j) == Len(req[j].clips) > 1
Durations(clips) == [k \in 1 .. Len(clips) |-> ClipDuration(clips[k])]
Abs(x) == IF x < 0 THEN -x ELSE x
\* job j emits an event from the reader task of its phase p in this step
EmitsFrom(j, p) ==
  emitted'.n > emitted.n /\ emitted'.job = j /\ emitted'.phase = p

\* C1: whenever a multi-clip export has returned, on any path, no scratch
\* file (temp_clip_<i>.mp4, concat_list.txt) is left on disk.
C1_ScratchDeletedOnReturn ==
  \A j \in Jobs : (pc[j] = "done" /\ IsMulti(j)) => files \cap ScratchPaths = {}

\* C2: the values emitted on 'ffmpeg-progress' never decrease over a job,
\* under every interleaving of the reader tasks with the orchestrator.
C2_ProgressMonotonic ==
  [][(emitted.n > 0 /\ emitted'.n > emitted.n) => emitted'.value >= emitted.value]_vars

\* C3: phases run strictly sequentially: at most one child of a job runs at
\* a time, run_with_progress returns only once its child has exited, and the
\* child of phase p is spawned only after phase p-1 exited and passed the
\* output check (returned Ok).
C3_PhasesSequential ==
  \A j \in Jobs :
    /\ Cardinality({p \in Phases : proc[j, p].status = "running"}) <= 1
    /\ \A p \in Phases : Returned(j, p) => proc[j, p].status = "exited"
    /\ \A p \in Phases \ {0} :
         proc[j, p].spawned > 0 =>
           proc[j, p - 1].status = "exited" /\ proc[j, p - 1].ret = "Ok"

C3_Witness ==
  \E j \in Jobs : proc[j, 2].status = "running" /\ proc[j, 1].ret = "Ok"

\* C4: once a phase has failed (spawn failure, non-zero exit, missing
\* output) the export has returned an error and no later phase is ever
\* spawned; no phase spawns more than one process.
C4_FailureAborts ==
  \A j \in Jobs : \A p \in Phases :
    /\ proc[j, p].spawned <= 1
    /\ Failed(j, p) =>
         /\ pc[j] = "done"
         /\ result[j].kind = "Err"
         /\ \A q \in Phases : q > p => proc[j, q].spawned = 0

C4_Witness ==
  \E j \in Jobs : proc[j, 0].ret = "Ok" /\ proc[j, 1].ret = "OutputValidation"

\* C5: a request with an empty clip list, a clip whose source is missing or
\* an unknown resolution name is rejected with an error (naming a missing
\* path when one is missing) with no process spawned, no file written and no
\* event emitted.
KnownResolutions == {"source", "480p", "720p", "1080p", "4K"}
MissingPaths(r) == {r.clips[k].path : k \in 1 .. Len(r.clips)} \ SourceFiles
C5_InvalidRejected ==
  \A j \in Jobs :
    (/\ pc[j] # "idle"
     /\ \/ req[j].clips = <<>>
        \/ MissingPaths(req[j]) # {}
        \/ req[j].resolution \notin KnownResolutions)
    => /\ pc[j] = "done"
       /\ result[j].kind = "Err"
       /\ \A p \in Phases : proc[j, p].spawned = 0
       /\ files = SourceFiles
       /\ emitted.n = 0
       /\ MissingPaths(req[j]) # {} =>
            /\ result[j].error = "Clip not found"
            /\ result[j].path \in MissingPaths(req[j])

C5_Witness ==
  \E j \in Jobs :
    /\ pc[j] = "done"
    /\ Len(req[j].clips) = 2
    /\ req[j].clips[1].path \in SourceFiles
    /\ result[j].error = "Clip not found"

C7_NoEventAfterReturn ==
  [][\A j \in Jobs : \A p \in Phases : EmitsFrom(j, p) => ~Returned(j, p)]_vars

\* C8: when a single-clip export has returned Ok, the output exists and the
\* last progress event delivered is 100.
C8_FinalProgressIs100 ==
  \A j \in Jobs :
    (pc[j] = "done" /\ result[j].kind = "Ok" /\ Len(req[j].clips) = 1)
    => (output_path \in files /\ emitted.n > 0 /\ emitted.value = 100)

\* C9: a reader task emits only when at least PROGRESS_THROTTLE_MS have
\* passed since its previous emission (or its start), for either line key;
\* so after t ms it has emitted at most t / 100 events, no more than 10 for
\* a stream of one line per millisecond over one second.
C9_Throttled ==
  /\ [](/\ emitted.n * PROGRESS_THROTTLE_MS <= now
        /\ now <= 1000 => emitted.n <= 10)
  /\ [][\A j \in Jobs : \A p \in Phases :
          EmitsFrom(j, p) =>
            /\ now - reader[j, p].last_progress_time >= PROGRESS_THROTTLE_MS
            /\ reader'[j, p].last_progress_time = now]_vars

C9_Witness == emitted.n = 10 /\ proc[1, 0].out_time = 1000

\* C10: clip p of a multi-clip job runs with offset = 90 * (durations before
\* p) / total and range = 90 * (its duration) / total, both truncated, the
\* concat phase with offset 90 and range 10; for 10 s / 5 s / 5 s the
\* offsets are within 1 of 0, 45, 68 and the ranges within 1 of 45, 22, 23.
C10_ProgressWindows ==
  \A j \in Jobs : IsMulti(j) =>
    LET clips == req[j].clips
        n == Len(clips)
        total == SumDurations(clips)
    IN \A p \in Phases : proc[j, p].status # "none" =>
         IF p = n
           THEN proc[j, p].progress_offset = 90 /\ proc[j, p].progress_range = 10
           ELSE /\ proc[j, p].progress_offset =
                     (SumDurations(SubSeq(clips, 1, p)) * 90) \div total
                /\ proc[j, p].progress_range =
                     (ClipDuration(clips[p + 1]) * 90) \div total
                /\ Durations(clips) = <<10000, 5000, 5000>> =>
                     /\ Abs(proc[j, p].progress_offset - <<0, 45, 68>>[p + 1]) <= 1
                     /\ Abs(proc[j, p].progress_range - <<45, 22, 23>>[p + 1]) <= 1

C10_Witness ==
  \E j \in Jobs :
    /\ Durations(req[j].clips) = <<10000, 5000, 5000>>
    /\ proc[j, 3].status = "running"
    /\ proc[j, 2].progress_offset = 67

\* C11: every event of run_with_progress(Some(total), offset, range) for a
\* reported time t equals min(100, offset + phase / 100 * range), with
\* phase = min(100, t / total * 100) taken either truncated to an integer or
\* exactly, the result truncated; it lies in 0..100, is not below offset and
\* not above min(100, offset + range).
C11_OverallProgressFormula ==
  [][\A j \in Jobs : \A p \in Phases :
       EmitsFrom(j, p) =>
         LET t == CurrentTime(Head(stderr[j, p].buf))
             total == Unwrap(proc[j, p].duration)
             offset == proc[j, p].progress_offset
             range == proc[j, p].progress_range
             phase == Min(100, (t[1] * 100) \div (t[2] * total))
             truncated == Min(100, offset + (phase * range) \div 100)
             untruncated ==
               Min(100, offset + Min(range, (t[1] * range) \div (t[2] * total)))
         IN /\ emitted'.value \in {truncated, untruncated}
            /\ emitted'.value \in 0 .. 100
            /\ emitted'.value >= offset
            /\ emitted'.value <= Min(100, offset + range)]_vars

\* the scratch files job j has created and still needs: the clips it has
\* rendered and, once written, its concat list
Owns(j) ==
  IF pc[j] \in {"idle", "done"} THEN {}
  ELSE {trimmed_clip_paths[j][k] : k \in 1 .. Len(trimmed_clip_paths[j])} \cup
       (IF pc[j] \in {"concat_spawn", "concat_wait"} THEN {concat_list_path} ELSE {})

\* C12: with two multi-clip exports in flight, no child of one job writes to
\* a scratch file the other job owns, and no step of one job rewrites the
\* concat list or deletes a scratch file the other job owns.
C12_ScratchExclusive ==
  /\ [](\A j \in Jobs : \A j2 \in Jobs \ {j} : \A p \in Phases :
          proc[j, p].status = "running" => proc[j, p].output \notin Owns(j2))
  /\ [][\A j2 \in Jobs :
          pc'[j2] = pc[j2] =>
            /\ Owns(j2) \cap files \subseteq files'
            /\ concat_list_path \in Owns(j2) => concat_list_txt' = concat_list_txt]_vars

\* build_args has been called on the builder as it stands
Built == args.n > 0
\* the argument list holds the token / the adjacent pair of tokens
Has(token) == \E k \in 1 .. Len(args.list) : args.list[k] = token
HasPair(flag, value) ==
  \E k \in 1 .. Len(args.list) - 1 : args.list[k] = flag /\ args.list[k + 1] = value
Count(token) == Cardinality({k \in 1 .. Len(args.list) : args.list[k] = token})
HasAudioFilter(b) == b.muted \/ IsSome(b.volume)

\* C13: with a concat list set, the built arguments hold none of -ss, -t,
\* -vf, whatever else was called on the builder.
C13_ConcatNoSeekNoVf ==
  (Built /\ IsSome(builder.concat_list)) => ~Has("-ss") /\ ~Has("-t") /\ ~Has("-vf")

C13_Witness ==
  /\ Built
  /\ IsSome(builder.concat_list)
  /\ IsSome(builder.trim_start)
  /\ IsSome(builder.thumbnail_time)
  /\ IsSome(builder.scale_width)
  /\ IsSome(builder.crop_width)

\* C14: with a concat list set, the built arguments start with the block
\* -f concat -safe 0 -i <list> and hold no other input and no filter flag,
\* -af included, even after input, raw_input, mute or volume.
C14_ConcatSkipsInputAndFilters ==
  (Built /\ IsSome(builder.concat_list)) =>
    /\ SubSeq(args.list, 1, 6) =
         <<"-f", "concat", "-safe", "0", "-i", Unwrap(builder.concat_list)>>
    /\ Count("-i") = 1
    /\ Count("-f") = 1
    /\ ~Has("-vf")
    /\ ~Has("-af")

\* C15: with stream_copy set and neither mute nor volume, the built
\* arguments hold the pair -c copy and neither -c:v nor -c:a, even after
\* encode().
C15_StreamCopyPlain ==
  (Built /\ builder.stream_copy /\ ~HasAudioFilter(builder)) =>
    HasPair("-c", "copy") /\ ~Has("-c:v") /\ ~Has("-c:a")

C15_Witness ==
  /\ Built
  /\ builder.stream_copy
  /\ ~HasAudioFilter(builder)
  /\ builder.video_codec = Some("libx264")
  /\ IsSome(builder.pixel_format)

\* C16: with stream_copy set and mute or volume set, the built arguments
\* hold the pairs -c:v copy and -c:a aac and no plain -c.
C16_StreamCopyWithAudioFilter ==
  (Built /\ builder.stream_copy /\ HasAudioFilter(builder)) =>
    HasPair("-c:v", "copy") /\ HasPair("-c:a", "aac") /\ ~Has("-c")

C16_Witness ==
  /\ Built
  /\ builder.stream_copy
  /\ builder.volume = Some(500)
  /\ ~builder.muted
  /\ HasPair("-af", "volume=0.5")

\* the decimal strings of the times the builder is given, in thousandths
DecimalString ==
  (0 :> "0") @@ (500 :> "0.5") @@ (1000 :> "1") @@ (2500 :> "2.5") @@ (5000 :> "5")

\* C17: for any trim(start, duration) configured, the built arguments hold
\* -ss immediately followed by start's decimal string and -t immediately
\* followed by duration's.
C17_TrimFlags ==
  (Built /\ IsSome(builder.trim_start)) =>
    /\ HasPair("-ss", DecimalString[Unwrap(builder.trim_start)])
    /\ HasPair("-t", DecimalString[Unwrap(builder.trim_duration)])

\* C17, amended: for a trim(start, duration) configured with no concat list
\* set, -t is immediately followed by duration's decimal string and the one
\* -ss by start's decimal string, or by the thumbnail time's when a
\* thumbnail time is set.
C17_TrimFlagsUnlessConcatOrThumbnail ==
  (Built /\ IsSome(builder.trim_start) /\ builder.concat_list = None) =>
    /\ Count("-ss") = 1
    /\ Count("-t") = 1
    /\ HasPair("-t", DecimalString[Unwrap(builder.trim_duration)])
    /\ HasPair("-ss", DecimalString[IF IsSome(builder.thumbnail_time)
                                      THEN Unwrap(builder.thumbnail_time)
                                      ELSE Unwrap(builder.trim_start)])

C17_Witness ==
  /\ Built
  /\ builder.trim_start = Some(1000)
  /\ builder.thumbnail_time = Some(2500)
  /\ builder.concat_list = None
  /\ HasPair("-ss", "2.5")
  /\ HasPair("-t", "5")

\* C18: when scale and crop dimensions are equal and no crop offsets are set
\* (and no concat list), the built arguments hold exactly one -vf, whose
\* value is the chain scale=W:H:force_original_aspect_ratio=increase,
\* crop=W:H:(iw-W)/2:(ih-H)/2, whichever calls produced that state.
C18_CropToFill ==
  (/\ Built
   /\ builder.concat_list = None
   /\ IsSome(builder.scale_width)
   /\ IsSome(builder.scale_height)
   /\ builder.crop_width = builder.scale_width
   /\ builder.crop_height = builder.scale_height
   /\ builder.crop_x = None
   /\ builder.crop_y = None)
  => LET w == ToString(Unwrap(builder.scale_width))
         h == ToString(Unwrap(builder.scale_height))
     IN /\ Count("-vf") = 1
        /\ HasPair("-vf",
             "scale=" \o w \o ":" \o h \o ":force_original_aspect_ratio=increase,crop="
               \o w \o ":" \o h \o ":(iw-" \o w \o ")/2:(ih-" \o h \o ")/2")

FlagRank(flag) ==
  CASE flag \in {"-ss", "-t"} -> 1
    [] flag \in {"-f", "-safe", "-pixel_format", "-video_size", "-framerate", "-i"} -> 2
    [] flag \in {"-vf", "-af"} -> 3
    [] flag \in {"-c", "-c:v", "-c:a", "-preset", "-crf", "-pix_fmt", "-b:a",
                 "-avoid_negative_ts"} -> 4
    [] flag = "-vframes" -> 5
    [] flag = "-progress" -> 6
    [] flag = "-y" -> 7
    [] OTHER -> 0

\* C20: the built arguments are flag/value pairs in the fixed order: either
\* the concat block alone or seek/trim, input, filters; then codec flags,
\* -vframes 1, -progress pipe:2, and -y <output> as the last two tokens.
C20_TokenOrder ==
  Built =>
    LET list == args.list
        flags == {k \in 1 .. Len(list) : k % 2 = 1}
    IN /\ Len(list) % 2 = 0
       /\ \A k \in flags : FlagRank(list[k]) > 0
       /\ \A k, m \in flags : k < m => FlagRank(list[k]) <= FlagRank(list[m])
       /\ \A k, m \in flags : (list[k] \in {"-ss", "-t"} /\ list[m] = "-i") => k < m
       /\ IsSome(builder.concat_list) =>
            /\ SubSeq(list, 1, 6) =
                 <<"-f", "concat", "-safe", "0", "-i", Unwrap(builder.concat_list)>>
            /\ \A k \in flags : k > 6 => FlagRank(list[k]) > 3
       /\ HasPair("-vframes", "1") \/ ~Has("-vframes")
       /\ HasPair("-progress", "pipe:2") \/ ~Has("-progress")
       /\ IsSome(builder.output) =>
            /\ Len(list) >= 2
            /\ list[Len(list) - 1] = "-y"
            /\ list[Len(list)] = Unwrap(builder.output)

\* the orders in which the recorded calls can be applied
Orders(methods) ==
  {s \in [1 .. Len(methods) -> {methods[k] : k \in 1 .. Len(methods)}] :
     \A m \in 1 .. Len(methods) : \E k \in 1 .. Len(s) : s[k] = methods[m]}

\* C21: for any set of builder method calls, the argument list built is the
\* same for every order in which those calls are applied.
C21_OrderIndependent ==
  (Built /\ called # <<>>) =>
    \A s \in Orders(called) : build_args(Configure(s)) = args.list

\* an argument list holds the token / the adjacent pair / so many of the token
Contains(list, token) == \E k \in 1 .. Len(list) : list[k] = token
ContainsPair(list, flag, value) ==
  \E k \in 1 .. Len(list) - 1 : list[k] = flag /\ list[k + 1] = value
Occurrences(list, token) == Cardinality({k \in 1 .. Len(list) : list[k] = token})

\* the audio filter flags of an argument list are as muted / volume demand
AudioFlagsAre(list, muted, vol) ==
  IF muted
    THEN Occurrences(list, "-af") = 1 /\ ContainsPair(list, "-af", "volume=0")
  ELSE IF IsSome(vol)
    THEN LET v == Unwrap(vol)
             factor == IF v < 0 THEN 0 ELSE IF v > 1000 THEN 1000 ELSE v
         IN /\ Occurrences(list, "-af") = 1
            /\ ContainsPair(list, "-af", "volume=" \o DecimalString[factor])
  ELSE ~Contains(list, "-af")

\* C22: a muted builder builds exactly one -af, volume=0; an unmuted one
\* with a volume exactly one -af, volume=<factor clamped to [0, 1]>; any
\* other no -af.  The command export_video runs for a clip with muted =
\* Some(true) carries volume=0 whatever the clip's volume, otherwise the
\* clip's volume if it has one.
C22_MuteWinsOverVolume ==
  /\ Built => AudioFlagsAre(args.list, builder.muted, builder.volume)
  /\ \A j \in Jobs : \A p \in Phases :
       (proc[j, p].status # "none" /\ p < Len(req[j].clips)) =>
         AudioFlagsAre(proc[j, p].args, req[j].clips[p + 1].muted = Some(TRUE),
                       req[j].clips[p + 1].volume)

C22_Witness ==
  \E j \in Jobs :
    /\ Len(req[j].clips) = 2
    /\ proc[j, 1].status = "running"
    /\ req[j].clips[1].muted = Some(FALSE) /\ req[j].clips[1].volume = Some(1500)
    /\ req[j].clips[2].muted = Some(TRUE) /\ req[j].clips[2].volume = Some(500)
    /\ ContainsPair(proc[j, 0].args, "-af", "volume=1")
    /\ ContainsPair(proc[j, 1].args, "-af", "volume=0")

\* a clip whose trim range export_video should refuse
InvalidTrim(clip) == clip.trim_start < 0 \/ clip.trim_end <= clip.trim_start

\* C23: an export request with a clip whose trim_start < 0 or whose
\* trim_end <= trim_start is rejected with an error, no process having been
\* spawned.
C23_TimeOrderValidated ==
  \A j \in Jobs :
    (pc[j] # "idle" /\ \E k \in 1 .. Len(req[j].clips) : InvalidTrim(req[j].clips[k]))
    => /\ pc[j] = "done"
       /\ result[j].kind = "Err"
       /\ \A p \in Phases : proc[j, p].spawned = 0

\* the phase an error returned by export_multi_clips for n clips points at:
\* the clip index it carries, else the concat phase n when it is a bare
\* FFmpegError text, else none
FFmpegErrorTexts == {Display(e) : e \in {"CommandSpawn", "ExecutionFailed", "OutputValidation"}}
PhaseOf(r, n) ==
  IF r.error = "Failed to process clip" /\ r.clip \in 0 .. (n - 1) THEN r.clip
  ELSE IF r.error \in FFmpegErrorTexts THEN n
  ELSE -1

\* C24: the error a multi-clip export returns tells which phase failed: a
\* failed clip phase p gives an error carrying the index p; a failed concat
\* phase gives an FFmpegError text without a clip index, which no other
\* error of a multi-clip export is; an error from outside the phases points
\* at no phase.
C24_ErrorNamesPhase ==
  \A j \in Jobs :
    (IsMulti(j) /\ pc[j] = "done" /\ result[j].kind = "Err") =>
      LET n == Len(req[j].clips) IN
      /\ \A p \in 0 .. n : Failed(j, p) => PhaseOf(result[j], n) = p
      /\ (\A p \in 0 .. n : ~Failed(j, p)) => PhaseOf(result[j], n) = -1

C24_Witness ==
  \E j \in Jobs :
    /\ pc[j] = "done"
    /\ Len(req[j].clips) = 2
    /\ proc[j, 2].ret = "ExecutionFailed"
    /\ result[j] = Err("FFmpeg execution failed", "", -1, "")

\* an error message carries a piece of text
Carries(msg, piece) == \E k \in 1 .. Len(msg) : msg[k] = piece

\* C25: the error a non-zero exit gives carries the exit code and the text
\* the process wrote to stderr, from run_with_progress and from run alike.
C25_FailureCarriesCodeAndStderr ==
  /\ \A j \in Jobs : \A p \in Phases :
       proc[j, p].ret = "ExecutionFailed" =>
         /\ Carries(proc[j, p].msg, ToString(proc[j, p].code))
         /\ Carries(proc[j, p].msg, StderrText(proc[j, p].code))
  /\ (trim.pc = "done" /\ trim.code > 0) =>
       /\ Carries(trim.msg, ToString(trim.code))
       /\ Carries(trim.msg, StderrText(trim.code))

\* C26: a single-clip export that passed validation invokes exactly one
\* process, with offset 0, range 100 and duration trim_end - trim_start,
\* whose command writes to the final output path; no scratch file is
\* created.
C26_SingleClipDirect ==
  \A j \in Jobs :
    (Len(req[j].clips) = 1 /\ pc[j] # "idle") =>
      LET clip == req[j].clips[1]
          list == proc[j, 0].args
      IN /\ \A p \in Phases \ {0} : proc[j, p].spawned = 0
         /\ proc[j, 0].spawned <= 1
         /\ pc[j] = "single_wait" => proc[j, 0].spawned = 1
         /\ (pc[j] = "done" /\ Validate(req[j].clips, req[j].resolution, SourceFiles) = NoResult)
              => proc[j, 0].spawned = 1
         /\ proc[j, 0].status # "none" =>
              /\ proc[j, 0].progress_offset = 0
              /\ proc[j, 0].progress_range = 100
              /\ proc[j, 0].duration = Some(clip.trim_end - clip.trim_start)
              /\ proc[j, 0].output = output_path
              /\ Occurrences(list, "-i") = 1
              /\ ContainsPair(list, "-i", clip.path)
              /\ SubSeq(list, Len(list) - 1, Len(list)) = <<"-y", output_path>>
         /\ files \cap ScratchPaths = {}

C26_Witness ==
  \E j \in Jobs :
    /\ Len(req[j].clips) = 1
    /\ pc[j] = "done"
    /\ result[j] = Ok(output_path)
    /\ proc[j, 0].spawned = 1
    /\ proc[j, 0].duration = Some(10000)

\* C27: in a multi-clip export the concat process is spawned only after
\* every clip phase returned Ok; the concat list then holds one line
\* file '<path>' per clip, in clip order, the k-th path being the output of
\* the k-th clip's command; the concat command reads that list with the
\* concat demuxer, stream-copies and writes to the final output path.
C27_ConcatAfterClips ==
  \A j \in Jobs : IsMulti(j) =>
    LET n == Len(req[j].clips) IN
    /\ proc[j, n].spawned > 0 => \A p \in 0 .. (n - 1) : proc[j, p].ret = "Ok"
    /\ (pc[j] \in {"concat_spawn", "concat_wait"} \/ proc[j, n].spawned > 0) =>
         /\ Len(concat_list_txt) = n
         /\ \A k \in 1 .. n :
              /\ concat_list_txt[k] = "file '" \o proc[j, k - 1].output \o "'"
              /\ proc[j, k - 1].output = TempClipPath(k - 1)
              /\ ContainsPair(proc[j, k - 1].args, "-i", req[j].clips[k].path)
              /\ ContainsPair(proc[j, k - 1].args, "-y", TempClipPath(k - 1))
    /\ proc[j, n].status # "none" =>
         /\ proc[j, n].output = output_path
         /\ proc[j, n].args =
              <<"-f", "concat", "-safe", "0", "-i", concat_list_path,
                "-c", "copy", "-avoid_negative_ts", "make_zero",
                "-progress", "pipe:2", "-y", output_path>>

C27_Witness ==
  \E j \in Jobs :
    /\ Len(req[j].clips) = 3
    /\ pc[j] = "concat_wait"
    /\ proc[j, 3].status = "running"
    /\ concat_list_txt =
         <<"file 'temp_clip_0.mp4'", "file 'temp_clip_1.mp4'", "file 'temp_clip_2.mp4'">>

\* C28: with a thumbnail time and a trim both set and no concat list, the
\* built arguments hold exactly one -ss, followed by the thumbnail time and
\* not by the trim start, and the pair -vframes 1.
C28_ThumbnailSeekWins ==
  (/\ Built
   /\ IsSome(builder.thumbnail_time)
   /\ IsSome(builder.trim_start)
   /\ builder.concat_list = None)
  => /\ Count("-ss") = 1
     /\ HasPair("-ss", DecimalString[Unwrap(builder.thumbnail_time)])
     /\ builder.trim_start # builder.thumbnail_time =>
          ~HasPair("-ss", DecimalString[Unwrap(builder.trim_start)])
     /\ HasPair("-vframes", "1")

C28_Witness ==
  /\ Built
  /\ builder.thumbnail_time = Some(2500)
  /\ builder.trim_start = Some(1000)
  /\ builder.concat_list = None
  /\ IsSome(builder.input)
  /\ SubSeq(args.list, 1, 6) = <<"-ss", "2.5", "-t", "5", "-i", "input.mp4">>

\* the built arguments hold the flag once, followed by the value
HasOnce(flag, value) == Count(flag) = 1 /\ HasPair(flag, value)
EncodeCalled == builder.video_codec = Some("libx264")
\* what holds of the encode profile whether or not encode() was called
EncodeProfile ==
  /\ EncodeCalled =>
       /\ HasOnce("-c:v", "libx264")
       /\ HasOnce("-crf", "23")
       /\ HasOnce("-c:a", "aac")
       /\ HasOnce("-b:a", "128k")
       /\ HasOnce("-preset", "medium") \/ HasOnce("-preset", "fast")
       /\ HasPair("-preset", "fast") => builder.preset = Some("fast")
  /\ Has("-pix_fmt") <=> IsSome(builder.pixel_format)
  /\ IsSome(builder.pixel_format) => HasOnce("-pix_fmt", "yuv420p")

\* C29: without stream_copy: after encode() the built arguments hold
\* -c:v libx264, -preset medium (or the value of a later preset()), -crf 23,
\* -c:a aac, -b:a 128k; -pix_fmt appears exactly after pixel_format(); with
\* no encode call none of -c:v, -preset, -crf, -c:a, -b:a appears.
C29_EncodeFlags ==
  (Built /\ ~builder.stream_copy) =>
    /\ EncodeProfile
    /\ ~EncodeCalled =>
         ~Has("-c:v") /\ ~Has("-preset") /\ ~Has("-crf") /\ ~Has("-c:a") /\ ~Has("-b:a")

\* C29, amended: as above, but with no encode call -preset <p> appears
\* exactly when preset(p) was called, and none of -c:v, -crf, -c:a, -b:a.
C29_EncodeFlagsPresetOnItsOwn ==
  (Built /\ ~builder.stream_copy) =>
    /\ EncodeProfile
    /\ ~EncodeCalled =>
         /\ ~Has("-c:v") /\ ~Has("-crf") /\ ~Has("-c:a") /\ ~Has("-b:a")
         /\ Has("-preset") <=> IsSome(builder.preset)
         /\ IsSome(builder.preset) => HasOnce("-preset", "fast")

C29_Witness ==
  /\ Built
  /\ ~builder.stream_copy
  /\ EncodeCalled
  /\ builder.preset = Some("fast")
  /\ IsSome(builder.pixel_format)
  /\ args.list = <<"-c:v", "libx264", "-preset", "fast", "-crf", "23",
                    "-pix_fmt", "yuv420p", "-c:a", "aac", "-b:a", "128k">>

\* C30: with no concat list: when a raw input is configured the input block
\* (what follows the seek arguments) is -f rawvideo -pixel_format <fmt>
\* -video_size <size> -framerate <fps> -i <input, or pipe:0 when none is
\* set> and there is no other -i; otherwise the input block is the plain
\* -i <path> of the input set, nothing when none is set.
C30_InputBlock ==
  (Built /\ builder.concat_list = None) =>
    LET seek == 2 * (Count("-ss") + Count("-t"))
        block(n) == SubSeq(args.list, seek + 1, seek + n)
    IN IF IsSome(builder.raw_input)
         THEN /\ block(10) =
                   <<"-f", "rawvideo",
                     "-pixel_format", Unwrap(builder.raw_input).pixel_format,
                     "-video_size", Unwrap(builder.raw_input).video_size,
                     "-framerate", "30",
                     "-i", IF IsSome(builder.input) THEN Unwrap(builder.input)
                           ELSE "pipe:0">>
              /\ Unwrap(builder.raw_input).framerate = 30
              /\ Count("-i") = 1
              /\ Count("-f") = 1
         ELSE /\ ~Has("-f") /\ ~Has("-pixel_format") /\ ~Has("-video_size")
              /\ ~Has("-framerate")
              /\ IF IsSome(builder.input)
                   THEN block(2) = <<"-i", Unwrap(builder.input)>> /\ Count("-i") = 1
                   ELSE ~Has("-i")

C30_Witness ==
  /\ Built
  /\ builder.concat_list = None
  /\ IsSome(builder.raw_input)
  /\ IsSome(builder.input)
  /\ Len(args.list) >= 14
  /\ SubSeq(args.list, 1, 14) =
       <<"-ss", "1", "-t", "5", "-f", "rawvideo", "-pixel_format", "rgb24",
         "-video_size", "1280x720", "-framerate", "30", "-i", "input.mp4">>

\* C31: in every multi-clip job whose clip durations are all positive, each
\* clip phase has offset + range <= 90, the window of a clip starts no
\* earlier than the window of the clip before it ends, and every phase, the
\* concat phase included, has offset + range <= 100.
C31_WindowsWellFormed ==
  \A j \in Jobs :
    (IsMulti(j) /\ \A k \in 1 .. Len(req[j].clips) : ClipDuration(req[j].clips[k]) > 0) =>
      LET n == Len(req[j].clips) IN
      \A p \in 0 .. n : proc[j, p].status # "none" =>
        /\ proc[j, p].progress_offset + proc[j, p].progress_range <= 100
        /\ p < n => proc[j, p].progress_offset + proc[j, p].progress_range <= 90
        /\ (p + 1 < n /\ proc[j, p + 1].status # "none") =>
             proc[j, p + 1].progress_offset >=
               proc[j, p].progress_offset + proc[j, p].progress_range

\* C32: when run_with_progress is called with duration = None, every event
\* its reader task emits equals min(100, offset), whatever time the line
\* reports.
C32_UnknownTotalStaysAtOffset ==
  [][\A j \in Jobs : \A p \in Phases :
       (EmitsFrom(j, p) /\ proc[j, p].duration = None) =>
         emitted'.value = Min(100, proc[j, p].progress_offset)]_vars

C32_Witness ==
  \E j \in Jobs : \E p \in Phases :
    /\ proc[j, p].duration = None
    /\ proc[j, p].status = "running"
    /\ proc[j, p].out_time = 10000
    /\ proc[j, p].progress_range = 45
    /\ stderr[j, p].buf = <<>>
    /\ emitted.n = 2 /\ emitted.job = j /\ emitted.phase = p
    /\ emitted.value = proc[j, p].progress_offset
    /\ emitted.value = 45

\* C33: the reader task terminates: once the child has closed its stderr
\* the task finishes (at the end of the stream or at a failed read); a
\* finished task stays finished and emits nothing; and what
\* run_with_progress returns is fixed by the exit status and the output
\* check alone, whatever the reader task has done.
C33_ReaderTerminates ==
  /\ stderr[1, 0].closed ~> reader[1, 0].status = "done"
  /\ [][\A j \in Jobs :
         /\ reader[j, 0].status = "done" =>
              (~EmitsFrom(j, 0) /\ reader'[j, 0].status = "done")
         /\ (reader[j, 0].status = "reading" /\ reader'[j, 0].status = "done") =>
              ~EmitsFrom(j, 0)
         /\ (proc[j, 0].status # "none" /\ proc[j, 0].ret = "pending"
                /\ proc'[j, 0].ret # "pending") =>
              /\ proc'[j, 0].ret =
                   (IF proc[j, 0].code # 0 THEN "ExecutionFailed"
                    ELSE IF proc[j, 0].output \in files THEN "Ok"
                    ELSE "OutputValidation")
              /\ result'[j].kind = (IF proc'[j, 0].ret = "Ok" THEN "Ok" ELSE "Err")]_vars

C33_Witness ==
  \E j \in Jobs :
    /\ reader[j, 0].status = "reading"
    /\ stderr[j, 0].closed
    /\ stderr[j, 0].buf # <<>>
    /\ proc[j, 0].ret = "Ok"
    /\ result[j] = Ok(output_path)
    /\ emitted.n > 0 /\ emitted.job = j /\ emitted.phase = 0

\* the spec's crop-to-fill configuration: scale and crop dimensions equal,
\* no explicit crop offsets
CropToFill(b) ==
  /\ IsSome(b.scale_width) /\ IsSome(b.scale_height)
  /\ b.crop_width = b.scale_width /\ b.crop_height = b.scale_height
  /\ b.crop_x = None /\ b.crop_y = None

\* the reference synthesizer's crop clause: present when a crop is set
\* whose dimensions differ from the scale's or when no scale is set
ReferenceCrop(b) ==
  IF IsSome(b.crop_width) /\ IsSome(b.crop_height)
       /\ ~(b.scale_width = b.crop_width /\ b.scale_height = b.crop_height)
    THEN LET size == ToString(b.crop_width[1]) \o ":" \o ToString(b.crop_height[1])
         IN IF b.crop_x # None /\ b.crop_y # None
              THEN <<"crop=" \o size \o ":" \o ToString(b.crop_x[1]) \o ":"
                       \o ToString(b.crop_y[1])>>
              ELSE <<"crop=" \o size \o ":(iw-" \o ToString(b.crop_width[1])
                       \o ")/2:(ih-" \o ToString(b.crop_height[1]) \o ")/2">>
    ELSE <<>>

\* the reference synthesizer's scale clause, chosen by mode
ReferenceScale(b) ==
  CASE b.scale_width = None -> <<>>
    [] b.scale_width = Some(0) -> <<"scale=trunc(iw/2)*2:trunc(ih/2)*2">>
    [] b.scale_width \notin {None, Some(0)} /\ b.scale_height = None ->
         <<"scale=" \o ToString(b.scale_width[1]) \o ":trunc(ih/2)*2">>
    [] b.scale_width \notin {None, Some(0)} /\ b.scale_height # None /\ b.scale_pad ->
         LET size == ToString(b.scale_width[1]) \o ":" \o ToString(b.scale_height[1])
         IN <<"scale=" \o size \o ":force_original_aspect_ratio=decrease,pad="
                \o size \o ":(ow-iw)/2:(oh-ih)/2:black">>
    [] OTHER ->
         <<"scale=" \o ToString(b.scale_width[1]) \o ":" \o ToString(b.scale_height[1])>>

\* C34: for a builder without a concat list and not in crop-to-fill, the
\* built arguments hold no -vf when the reference chain (crop clause, then
\* the scale clause of the mode) is empty, and else exactly one -vf whose
\* value is that chain joined by commas.
C34_VfChainIsReference ==
  (Built /\ builder.concat_list = None /\ ~CropToFill(builder)) =>
    LET chain == ReferenceCrop(builder) \o ReferenceScale(builder)
    IN IF chain = <<>>
         THEN Count("-vf") = 0
         ELSE /\ Count("-vf") = 1
              /\ HasPair("-vf", IF Len(chain) = 1 THEN chain[1]
                                ELSE chain[1] \o "," \o chain[2])

C34_Witness ==
  /\ Built
  /\ builder.concat_list = None
  /\ builder.scale_pad
  /\ HasPair("-vf", "crop=1280:720:10:20,scale=640:360:force_original_aspect_ratio=decrease,pad=640:360:(ow-iw)/2:(oh-ih)/2:black")

\* the crop clause of the crop configured on b
CropClause(b) ==
  LET size == ToString(Unwrap(b.crop_width)) \o ":" \o ToString(Unwrap(b.crop_height))
  IN IF IsSome(b.crop_x) /\ IsSome(b.crop_y)
       THEN "crop=" \o size \o ":" \o ToString(Unwrap(b.crop_x)) \o ":"
              \o ToString(Unwrap(b.crop_y))
       ELSE "crop=" \o size \o ":(iw-" \o ToString(Unwrap(b.crop_width))
              \o ")/2:(ih-" \o ToString(Unwrap(b.crop_height)) \o ")/2"

\* every scale clause build_args can write for the scale configured on b
ScaleClauses(b) ==
  IF b.scale_width = None THEN {}
  ELSE LET w == ToString(Unwrap(b.scale_width))
           h == IF IsSome(b.scale_height) THEN ToString(Unwrap(b.scale_height)) ELSE ""
       IN {"scale=trunc(iw/2)*2:trunc(ih/2)*2",
           "scale=" \o w \o ":trunc(ih/2)*2",
           "scale=" \o w \o ":" \o h,
           "scale=" \o w \o ":" \o h \o ":force_original_aspect_ratio=increase",
           "scale=" \o w \o ":" \o h \o ":force_original_aspect_ratio=decrease,pad="
             \o w \o ":" \o h \o ":(ow-iw)/2:(oh-ih)/2:black"}

\* C36: whenever a crop is configured on a builder without a concat list,
\* the built arguments hold a -vf whose chain has the crop clause of that
\* crop (with the explicit offsets when both are set), alone or next to a
\* scale clause -- also when the crop dimensions equal the scale dimensions
\* and in pad mode.
C36_CropClauseEmitted ==
  (Built /\ builder.concat_list = None /\ IsSome(builder.crop_width)) =>
    \E k \in 1 .. Len(args.list) - 1 :
      /\ args.list[k] = "-vf"
      /\ args.list[k + 1] \in
           {CropClause(builder)}
             \cup {CropClause(builder) \o "," \o c : c \in ScaleClauses(builder)}
             \cup {c \o "," \o CropClause(builder) : c \in ScaleClauses(builder)}

\* the builder fields the last recorded call has written, in the order of
\* the method's parameters
Stored(b, method) ==
  CASE method = "input" -> <<b.input>>
    [] method = "output" -> <<b.output>>
    [] method = "trim" -> <<b.trim_start, b.trim_duration>>
    [] method = "scale" -> <<b.scale_width, Some(b.scale_height)>>
    [] method \in {"scale_with_pad", "scale_crop"} -> <<b.scale_width, b.scale_height>>
    [] method = "crop" -> <<b.crop_width, b.crop_height, Some(b.crop_x), Some(b.crop_y)>>
    [] method = "preset" -> <<b.preset>>
    [] method = "thumbnail" -> <<b.thumbnail_time>>
    [] method = "raw_input" -> <<b.raw_input>>
    [] method = "concat" -> <<b.concat_list>>
    [] method = "pixel_format" -> <<b.pixel_format>>
    [] OTHER -> <<b.volume>>

\* the volume clauses of the factors 0, 0.25, 0.5 and 1
FactorClause ==
  (0 :> "volume=0") @@ (250 :> "volume=0.25") @@ (500 :> "volume=0.5")
    @@ (1000 :> "volume=1")

\* C35: after volume(v) the stored factor is min(1, max(0, v)); a stored
\* factor is always within [0, 1] and the -af value built from it is the
\* clause of that factor; after any other method the fields it writes hold
\* its arguments as given, whatever they are.
C35_VolumeClamped ==
  /\ IsSome(builder.volume) =>
       Unwrap(builder.volume) >= 0 /\ Unwrap(builder.volume) <= 1000
  /\ called # <<>> =>
       LET call == called[1] IN
       IF call.method = "volume"
         THEN LET v == call.arguments[1] IN
              builder.volume = Some(IF v <= 0 THEN 0 ELSE IF v >= 1000 THEN 1000 ELSE v)
         ELSE Stored(builder, call.method) =
                [k \in 1 .. Len(call.arguments) |-> Some(call.arguments[k])]
  /\ Built =>
       /\ Count("-af") = (IF IsSome(builder.volume) THEN 1 ELSE 0)
       /\ \A k \in 1 .. Len(args.list) - 1 :
            args.list[k] = "-af" =>
              /\ Unwrap(builder.volume) \in DOMAIN FactorClause
              /\ args.list[k + 1] = FactorClause[Unwrap(builder.volume)]

C35_Witness ==
  /\ Built
  /\ called # <<>>
  /\ called[1].method = "volume"
  /\ called[1].arguments = <<1500>>
  /\ builder.volume = Some(1000)
  /\ HasPair("-af", "volume=1")

\* the positions generate_thumbnail is to try for a duration, in order
PositionsToTry(duration) ==
  SelectSeq(<<1000, duration \div 10, 500, 0>>,
            LAMBDA t : ~(duration > 0 /\ t >= duration))

\* an attempt that succeeded and left the thumbnail on disk
Succeeded(attempt) == attempt.ret = "Ok" /\ attempt.exists

\* C37: generate_thumbnail runs one process per position of 1.0,
\* 0.1 * duration, 0.5, 0.0 that is not at or beyond a positive duration, in
\* that order, each seeking to its position; every attempt before the last
\* one made has failed; it returns Ok only after an attempt that succeeded
\* with the thumbnail on disk, and makes no attempt after that one; when all
\* attempts have failed it returns the error that carries the failure of
\* the last one.
C37_ThumbnailAttempts ==
  LET tried == thumb.attempts
      positions == PositionsToTry(thumb.duration)
      all_failed == "Failed to generate thumbnail after trying multiple time positions"
  IN /\ Len(tried) <= Len(positions)
     /\ \A n \in 1 .. Len(tried) :
          /\ tried[n].time_pos = positions[n]
          /\ SubSeq(tried[n].args, 1, 4) =
               <<"-ss", F64ToString(positions[n]), "-i", thumb.file_path>>
          /\ n < Len(tried) => ~Succeeded(tried[n])
     /\ thumb.pc = "loop" => \A n \in 1 .. Len(tried) : ~Succeeded(tried[n])
     /\ (thumb.pc = "done" /\ thumb.result.kind = "Ok") =>
          /\ tried # <<>>
          /\ Succeeded(tried[Len(tried)])
          /\ thumb.result.path = ThumbnailPath(thumb.file_path)
          /\ thumb.result.path \in files
     /\ (thumb.pc = "done" /\ tried # <<>> /\ Succeeded(tried[Len(tried)])) =>
          (thumb.result.kind = "Ok"
             \/ thumb.result.error = "Failed to get thumbnail metadata")
     /\ (thumb.pc = "done" /\ thumb.result.kind = "Err" /\ thumb.result.error = all_failed) =>
          /\ Len(tried) = Len(positions)
          /\ \A n \in 1 .. Len(tried) : ~Succeeded(tried[n])
          /\ tried # <<>>
          /\ LET last == tried[Len(tried)] IN
             thumb.result.last_error =
               (IF last.ret = "Ok" THEN <<"Thumbnail file was not created">>
                ELSE <<"FFmpeg error at", last.time_pos,
                       IF last.ret = "CommandSpawn" THEN "Failed to spawn FFmpeg"
                       ELSE "FFmpeg execution failed">>)
     /\ (thumb.pc = "done" /\ Len(tried) = Len(positions)
          /\ \A n \in 1 .. Len(tried) : ~Succeeded(tried[n])
          /\ thumb.file_path \in files /\ thumb.k > 1) =>
          (thumb.result.kind = "Err" /\ thumb.result.error = all_failed)

C37_Witness ==
  /\ thumb.pc = "done"
  /\ thumb.duration = 1000
  /\ thumb.result.kind = "Ok"
  /\ Len(thumb.attempts) = 2
  /\ thumb.attempts[1].time_pos = 100 /\ thumb.attempts[1].ret = "Ok"
  /\ ~thumb.attempts[1].exists
  /\ thumb.attempts[2].time_pos = 500

====
